---- MODULE Spec2Model ----
(***************************************************************************)
(* A model of mem0's graph memory (src/mem0/memory/main_graph.py): the     *)
(* MemoryGraph object, the Neo4j store it drives through Cypher            *)
(* statements, and the language-model and embedding collaborators whose    *)
(* answers are inputs.                                                     *)
(*                                                                         *)
(* Strings are sequences of one-character strings, so that                 *)
(* str.lower().replace(" ", "_") is computed character by character.       *)
(* The store is a set of nodes (each with a name, a set of labels and a    *)
(* discriminator k standing for Neo4j's elementId), a partial function     *)
(* giving the embedding property of the nodes that have one, and a bag of  *)
(* edges (two edges with the same ends and type are two elements).  The    *)
(* `created` timestamps are left out: no statement reads them.             *)
(* A call that runs alone is one action; a call that other clients of the  *)
(* store may interleave with is one action for each statement, composed of *)
(* the same statement operators.                                           *)
(***************************************************************************)
EXTENDS Integers, Sequences, FiniteSets, Bags, TLC

VARIABLES
  nodes,      \* the store: its nodes
  embedding,  \* the store: the embedding property of the nodes that have one
  edges,      \* the store: its edges, a bag
  user_id,    \* MemoryGraph.user_id
  running,    \* the add() calls in progress, each at one of its statements
  supplied,   \* history: the embedding last handed to the store for a (name, label)
  last,       \* history: the last call made, its inputs and its outcome
  merge,      \* the last merge_metadata_dict call: its heap before and after, its outcome
  pinecone,   \* PineconeDb: the index and the last call made on it
  app,        \* the last CustomApp construction: its arguments and its outcome
  pipeline,   \* Pipeline: the data_sources rows, what the platform received, the last deploy()
  proxy       \* Completions.create: its message objects, its position, its background thread

vars == <<nodes, embedding, edges, user_id, running, supplied, last, merge, pinecone, app,
          pipeline, proxy>>

\* the state of mem0's MemoryGraph
mem0 == <<nodes, embedding, edges, user_id, running, supplied>>

\* the state of the embedchain programs
embedchain == <<merge, pinecone, app, pipeline, proxy>>

----------------------------------------------------------------------------
(* Strings *)

UpperCase ==
  <<"A","B","C","D","E","F","G","H","I","J","K","L","M",
    "N","O","P","Q","R","S","T","U","V","W","X","Y","Z">>

LowerCase ==
  <<"a","b","c","d","e","f","g","h","i","j","k","l","m",
    "n","o","p","q","r","s","t","u","v","w","x","y","z">>

UpperLetters == {UpperCase[i] : i \in DOMAIN UpperCase}

LowerOf ==
  [c \in UpperLetters |-> LowerCase[CHOOSE i \in DOMAIN UpperCase : UpperCase[i] = c]]

\* str.lower(), one character
Lower(c) == IF c \in UpperLetters THEN LowerOf[c] ELSE c

\* str.replace(" ", "_"), one character
ReplaceSpace(c) == IF c = " " THEN "_" ELSE c

\* s.lower().replace(" ", "_")
Normalize(s) == [i \in DOMAIN s |-> ReplaceSpace(Lower(s[i]))]

\* what "normalized" means for a stored string: no upper-case letter, no space
IsNormalized(s) == \A i \in DOMAIN s : s[i] # " " /\ s[i] \notin UpperLetters

----------------------------------------------------------------------------
(* The strings the language model may put in its tool calls *)

NewYork == <<"N","e","w"," ","Y","o","r","k">>

new_york == <<"n","e","w","_","y","o","r","k">>

alice == <<"a","l","i","c","e">>

City == <<"C","i","t","y">>

city == <<"c","i","t","y">>

person == <<"p","e","r","s","o","n">>

likes == <<"l","i","k","e","s">>

Dislikes == <<"D","i","s","l","i","k","e","s">>

dislikes == <<"d","i","s","l","i","k","e","s">>

RawNames == {NewYork, new_york, alice}

RawRels == {likes, Dislikes}

Users == {alice}

\* self.user_id = None
None == <<>>

----------------------------------------------------------------------------
(* Embeddings: integer vectors whose L2 norm is an integer, so that the    *)
(* square roots of the similarity expression are exact.                    *)

\* the query direction
EUnit == <<1, 0, 0, 0>>

\* cosine to EUnit is 7/10: exactly the threshold
EAt == <<7, 1, 1, 7>>

\* cosine to EUnit is 471/673 = 0.69985...: rounds to 0.6999
EBelow == <<471, 20, 108, 468>>

\* cosine to EUnit is 1402/2003 = 0.699950...: below 0.7, rounds to 0.7000
ERound == <<1402, 4, 358, 1385>>

Embeddings == {EAt, EBelow}

NormNames == {Normalize(n) : n \in RawNames}

\* the embedding collaborator during one call: a vector for each string; the
\* vector of a string may differ from one call to the next
EmbedFns ==
  {[n \in NormNames |-> IF n = new_york THEN e[1] ELSE e[2]] :
     e \in {<<EAt, EBelow>>, <<EBelow, EAt>>}}

\* reduce(acc = 0.0, i IN range(0, size(a)-1) | acc + a[i] * b[i])
RECURSIVE Reduce(_, _, _)
Reduce(a, b, i) == IF i = 0 THEN 0 ELSE Reduce(a, b, i - 1) + a[i] * b[i]

Dot(a, b) == Reduce(a, b, Len(a))

\* sqrt(x), exact on the perfect squares the embeddings above produce
\* (by bisection: the largest r in lo..hi with r * r <= x)
RECURSIVE SqrtIn(_, _, _)
SqrtIn(x, lo, hi) ==
  IF lo = hi THEN lo
  ELSE LET mid == (lo + hi + 1) \div 2
       IN  IF mid * mid <= x THEN SqrtIn(x, mid, hi) ELSE SqrtIn(x, lo, mid - 1)

Sqrt(x) == SqrtIn(x, 0, 46340)

\* round(num / den, 4) as a count of 0.0001 units, for num, den >= 0, half
\* up as Cypher's round(x, precision); by long division, digit by digit
RECURSIVE LongDiv(_, _, _)
LongDiv(r, den, digits) ==
  IF digits = 0
  THEN (IF 2 * r >= den THEN 1 ELSE 0)
  ELSE LET d == (r * 10) \div den
           q == LongDiv((r * 10) % den, den, digits - 1)
       IN  IF digits = 4 THEN d * 1000 + q
           ELSE IF digits = 3 THEN d * 100 + q
           ELSE IF digits = 2 THEN d * 10 + q
           ELSE d + q

Round4(num, den) == (num \div den) * 10000 + LongDiv(num % den, den, 4)

\* round(dot / (sqrt(l2 of n.embedding) * sqrt(l2 of $n_embedding)), 4)
Similarity(e, q) == Round4(Dot(e, q), Sqrt(Dot(e, e)) * Sqrt(Dot(q, q)))

\* self.threshold = 0.7, in 0.0001 units
Threshold == 7000

----------------------------------------------------------------------------
(* The graph store: what each Cypher statement does to G = [nodes,         *)
(* embedding, edges]                                                       *)

Graph == [nodes |-> nodes, embedding |-> embedding, edges |-> edges]

EmptyGraph == [nodes |-> {}, embedding |-> <<>>, edges |-> EmptyBag]

\* the nodes matched by the pattern ({name: $name})
ByName(N, name) == {n \in N : n.name = name}

\* the nodes matched by the pattern (:label {name: $name})
ByLabelName(N, label, name) == {n \in N : label \in n.labels /\ n.name = name}

\* a created node; k tells apart nodes that share their name and labels
NewNode(N, name, labels) ==
  [name |-> name, labels |-> labels,
   k |-> Cardinality({n \in N : n.name = name /\ n.labels = labels}) + 1]

\* MergeBound when MERGE matches on the name alone, whatever the label
MergeBoundByName(G, label, name) ==
  LET match == ByName(G.nodes, name)
  IN  IF match = {} THEN {NewNode(G.nodes, name, {label})} ELSE match

\* the nodes MERGE (n:label {name: $name}) binds: the matches, or else one
\* created node
MergeBound(G, label, name) ==
  LET match == ByLabelName(G.nodes, label, name)
  IN  IF match = {} THEN {NewNode(G.nodes, name, {label})} ELSE match

\* MergeNode without its ON MATCH SET clause: a matched node keeps the
\* embedding it has
MergeNodeOnCreateOnly(G, label, name, e) ==
  LET bound == MergeBound(G, label, name)
      old == G.embedding
  IN  [G EXCEPT !.nodes = G.nodes \cup bound,
                !.embedding = [n \in (DOMAIN old) \cup bound |->
                                 IF n \in DOMAIN old THEN old[n] ELSE e]]

\* MERGE (n:label {name: $name})
\* ON CREATE SET n.embedding = $e  ON MATCH SET n.embedding = $e
MergeNode(G, label, name, e) ==
  LET bound == MergeBound(G, label, name)
      old == G.embedding
  IN  [G EXCEPT !.nodes = G.nodes \cup bound,
                !.embedding = [n \in (DOMAIN old) \cup bound |->
                                 IF n \in bound THEN e ELSE old[n]]]

Edge(n, rel, m) == [src |-> n, rel |-> rel, dst |-> m]

\* the edges MERGE (n)-[rel:R]->(m) creates for the bound pairs: one for
\* each pair that has no edge of that type yet
MergeCreated(G, N, rel, M) ==
  {e \in {Edge(n, rel, m) : n \in N, m \in M} : ~ BagIn(e, G.edges)}

\* MERGE (n)-[rel:R]->(m)
MergeRelationship(G, N, rel, M) ==
  [G EXCEPT !.edges = G.edges (+) SetToBag(MergeCreated(G, N, rel, M))]

\* the statement of add(), lines 97-116, with the parameters of lines 109-114
\* (p: source, source_type, relation, destination, destination_type,
\* source_embedding, dest_embedding); `created` is the number of edges made
AddQuery(G, p) ==
  LET N  == MergeBound(G, p.source_type, p.source)
      G1 == MergeNode(G, p.source_type, p.source, p.source_embedding)
      M  == MergeBound(G1, p.destination_type, p.destination)
      G2 == MergeNode(G1, p.destination_type, p.destination, p.dest_embedding)
  IN  [graph |-> MergeRelationship(G2, N, p.relation, M),
       created |-> Cardinality(MergeCreated(G2, N, p.relation, M))]

\* MergeByName as CREATE: a bare node is created whether or not the name is
\* taken
MergeByNameAlways(G, name) ==
  [G EXCEPT !.nodes = G.nodes \cup {NewNode(G.nodes, name, {})}]

\* MERGE (n1 {name: $name}): a bare node (no label, no embedding) is created
\* when no node has the name
MergeByName(G, name) ==
  IF ByName(G.nodes, name) # {} THEN G
  ELSE [G EXCEPT !.nodes = G.nodes \cup {NewNode(G.nodes, name, {})}]

\* check_and_create_query, lines 274-278
EnsureNodes(G, source, target) == MergeByName(MergeByName(G, source), target)

\* DeleteRelationships left out: the old edges stay
DeleteNothing(G, source, target) == G

\* delete_query, lines 281-285: every edge from a node named source to a
\* node named target
DeleteRelationships(G, source, target) ==
  LET keep == {e \in BagToSet(G.edges) :
                 ~ (e.src.name = source /\ e.dst.name = target)}
  IN  [G EXCEPT !.edges = [e \in keep |-> G.edges[e]]]

\* CreateRows with the pattern matched in both directions
CreateRowsBothWays(G, source, target) ==
  (ByName(G.nodes, source) \X ByName(G.nodes, target))
  \cup (ByName(G.nodes, target) \X ByName(G.nodes, source))

\* the rows of create_query, lines 288-293: one per (n1, n2) matched
CreateRows(G, source, target) ==
  ByName(G.nodes, source) \X ByName(G.nodes, target)

\* create_query: CREATE (n1)-[r:relationship]->(n2) for every row
CreateRelationship(G, source, target, relationship) ==
  [G EXCEPT !.edges = G.edges (+)
     SetToBag({Edge(p[1], relationship, p[2]) : p \in CreateRows(G, source, target)})]

\* Failed as a test that never holds: an empty result is let through
FailedNever(result) == FALSE

\* line 295: if not result
Failed(result) == result = {}

\* _update_relationship, lines 257-296, run with no other statement in
\* between: the store it leaves and whether line 296 raises
UpdateResult(G, source, target, relationship) ==
  LET rel == Normalize(relationship)
      G1  == EnsureNodes(G, source, target)
      G2  == DeleteRelationships(G1, source, target)
  IN  [graph |-> CreateRelationship(G2, source, target, rel),
       raised |-> Failed(CreateRows(G2, source, target))]

\* the copies a bag holds of the elements of S, in all
RECURSIVE Copies(_, _)
Copies(B, S) ==
  IF S = {} THEN 0
  ELSE LET x == CHOOSE y \in S : TRUE
       IN  B[x] + Copies(B, S \ {x})

\* the rows of get_all, lines 238-250: one per edge, as a bag
GetAll(G) ==
  LET E == BagToSet(G.edges)
      rows == {[source |-> e.src.name, relationship |-> e.rel,
                target |-> e.dst.name] : e \in E}
  IN  [r \in rows |->
         Copies(G.edges, {e \in E : /\ e.src.name = r.source
                                    /\ e.rel = r.relationship
                                    /\ e.dst.name = r.target})]

----------------------------------------------------------------------------
(* The language model's answers *)

AddMemory(s, st, r, d, dt) ==
  [name |-> "add_graph_memory",
   arguments |-> [source |-> s, source_type |-> st, relationship |-> r,
                  destination |-> d, destination_type |-> dt]]

UpdateMemory(s, d, r) ==
  [name |-> "update_graph_memory",
   arguments |-> [source |-> s, destination |-> d, relationship |-> r]]

\* a noop call; the branch of line 82 reads no argument, and the model may
\* send the candidate it judged redundant along
Noop == [name |-> "noop", arguments |-> AddMemory(NewYork, City, likes, alice, person).arguments]

\* the tool calls a reconciliation answer is made of
ToolCalls ==
  {AddMemory(s, City, r, alice, person) : s \in {NewYork, new_york}, r \in RawRels}
  \cup {UpdateMemory(NewYork, alice, likes), UpdateMemory(new_york, alice, Dislikes)}
  \cup {Noop}

\* the longest reconciliation answer
MaxCalls == 1

\* the most edges the store is let to hold
MaxEdges == 4

RECURSIVE SeqsUpTo(_, _)
SeqsUpTo(S, n) ==
  IF n = 0 THEN {<<>>}
  ELSE LET shorter == SeqsUpTo(S, n - 1)
       IN  shorter \cup {Append(q, x) : q \in {t \in shorter : Len(t) = n - 1}, x \in S}

Batches == SeqsUpTo(ToolCalls, MaxCalls)

----------------------------------------------------------------------------
(* add(), lines 30-118 *)

NoError == "none"

HasKeys(arguments, keys) == keys \subseteq DOMAIN arguments

\* Dispatch with the test of line 82 dropped and the queueing of line 79
\* as the last branch: whatever is not an update is queued
RECURSIVE DispatchQueueAll(_, _, _)
DispatchQueueAll(G, calls, to_be_added) ==
  IF calls = <<>>
  THEN [graph |-> G, to_be_added |-> to_be_added, raised |-> NoError]
  ELSE LET item == Head(calls)
       IN  IF item.name = "update_graph_memory"
           THEN LET u == UpdateResult(G, item.arguments.source,
                                      item.arguments.destination,
                                      item.arguments.relationship)
                IN  DispatchQueueAll(u.graph, Tail(calls), to_be_added)
           ELSE DispatchQueueAll(G, Tail(calls), Append(to_be_added, item.arguments))

\* the loop of lines 77-83 over the tool calls still to handle
RECURSIVE Dispatch(_, _, _)
Dispatch(G, calls, to_be_added) ==
  IF calls = <<>>
  THEN [graph |-> G, to_be_added |-> to_be_added, raised |-> NoError]
  ELSE LET item == Head(calls)
       IN  IF item.name = "add_graph_memory"
           THEN Dispatch(G, Tail(calls), Append(to_be_added, item.arguments))
           ELSE IF item.name = "update_graph_memory"
           THEN IF ~ HasKeys(item.arguments, {"source", "destination", "relationship"})
                THEN [graph |-> G, to_be_added |-> to_be_added, raised |-> "KeyError"]
                ELSE LET u == UpdateResult(G, item.arguments.source,
                                           item.arguments.destination,
                                           item.arguments.relationship)
                     IN  IF u.raised
                         THEN [graph |-> u.graph, to_be_added |-> to_be_added,
                               raised |-> "Exception"]
                         ELSE Dispatch(u.graph, Tail(calls), to_be_added)
           ELSE Dispatch(G, Tail(calls), to_be_added)

\* lines 86-94 and 109-114: the parameters of the statement for one queued
\* triple
AddParams(item, embed) ==
  [source |-> Normalize(item.source),
   source_type |-> Normalize(item.source_type),
   relation |-> Normalize(item.relationship),
   destination |-> Normalize(item.destination),
   destination_type |-> Normalize(item.destination_type),
   source_embedding |-> embed[Normalize(item.source)],
   dest_embedding |-> embed[Normalize(item.destination)]]

\* the loop of lines 85-116 over the queued triples still to insert; `done`
\* counts the triples inserted
RECURSIVE Insert(_, _, _, _, _)
Insert(G, to_be_added, embed, done, created) ==
  IF to_be_added = <<>>
  THEN [graph |-> G, done |-> done, created |-> created, raised |-> NoError]
  ELSE LET item == Head(to_be_added)
       IN  IF ~ HasKeys(item, {"source", "source_type", "relationship",
                               "destination", "destination_type"})
           THEN [graph |-> G, done |-> done, created |-> created, raised |-> "KeyError"]
           ELSE LET q == AddQuery(G, AddParams(item, embed))
                IN  Insert(q.graph, Tail(to_be_added), embed, done + 1,
                           created + q.created)

\* add(data) when the model answers tool_calls: the store it leaves, what it
\* raises, what it returns (nothing: no return statement), the number it logs
\* at line 118, the triples it inserted and the edges they created.  With
\* user_id unset, str.replace at lines 47/52 raises before any statement
AddResult(G, uid, tool_calls, embed) ==
  IF uid = None
  THEN [graph |-> G, raised |-> "TypeError", ret |-> None, logged |-> None,
        inserted |-> <<>>, created |-> 0]
  ELSE LET d == Dispatch(G, tool_calls, <<>>)
           i == Insert(d.graph, d.to_be_added, embed, 0, 0)
       IN  IF d.raised # NoError
           THEN [graph |-> d.graph, raised |-> d.raised, ret |-> None,
                 logged |-> None, inserted |-> <<>>, created |-> 0]
           ELSE [graph |-> i.graph, raised |-> i.raised, ret |-> None,
                 logged |-> IF i.raised = NoError THEN <<Len(d.to_be_added)>> ELSE None,
                 inserted |-> SubSeq(d.to_be_added, 1, i.done),
                 created |-> i.created]

----------------------------------------------------------------------------
(* _search(), lines 121-177 *)

SearchCall(ns, rs) ==
  [name |-> "search", arguments |-> [nodes |-> ns, relations |-> rs]]

\* lines 133-135: the names of the search calls, one list after the other
RECURSIVE Extend(_)
Extend(tool_calls) ==
  IF tool_calls = <<>> THEN <<>>
  ELSE LET item == Head(tool_calls)
       IN  IF item.name = "search"
           THEN item.arguments.nodes \o Extend(Tail(tool_calls))
           ELSE Extend(Tail(tool_calls))

Range(q) == {q[i] : i \in DOMAIN q}

\* list(s): the elements of a set, in any order
RECURSIVE Lists(_)
Lists(S) ==
  IF S = {} THEN {<<>>}
  ELSE UNION {{<<x>> \o q : q \in Lists(S \ {x})} : x \in S}

\* lines 138 and 141: list(set(node_list)), then every name normalized
NodeLists(tool_calls) ==
  {[i \in DOMAIN q |-> Normalize(q[i])] : q \in Lists(Range(Extend(tool_calls)))}

\* Matched with a strict comparison: WHERE similarity > $threshold
MatchedAbove(G, q) ==
  {n \in DOMAIN G.embedding : Similarity(G.embedding[n], q) > Threshold}

\* lines 152-158: the nodes that pass WHERE n.embedding IS NOT NULL and
\* WHERE similarity >= $threshold
Matched(G, q) ==
  {n \in DOMAIN G.embedding : Similarity(G.embedding[n], q) >= Threshold}

\* the edges one by one: the c-th edge equal to e stands for its elementId
EdgeIds(G) ==
  UNION {{<<e, c>> : c \in 1..G.edges[e]} : e \in BagToSet(G.edges)}

\* one row of lines 160 and 170, for the edge r and the similarity s of the
\* matched node
Row(r, s) ==
  [source |-> r[1].src.name, source_id |-> r[1].src,
   relation |-> r[1].rel, relation_id |-> r,
   destination |-> r[1].dst.name, destination_id |-> r[1].dst,
   similarity |-> s]

\* SearchQuery without the part after UNION: only the edges that leave a
\* matched node
SearchQueryOutgoing(G, q) ==
  LET M == Matched(G, q)
      sim == [n \in M |-> Similarity(G.embedding[n], q)]
      E == EdgeIds(G)
  IN  {Row(r, sim[r[1].src]) : r \in {x \in E : x[1].src \in M}}

\* the statement of lines 151-172: the rows for the edges that leave a
\* matched node, UNION the rows for the edges that enter one.  The answer is
\* kept as the set of its rows: ORDER BY belongs to the second part only, the
\* order of a UNION is the store's, and its one reader, get_top_n, is
\* modelled with ties broken in any order
SearchQuery(G, q) ==
  LET M == Matched(G, q)
      sim == [n \in M |-> Similarity(G.embedding[n], q)]
      E == EdgeIds(G)
  IN  {Row(r, sim[r[1].src]) : r \in {x \in E : x[1].src \in M}}
      \cup {Row(r, sim[r[1].dst]) : r \in {x \in E : x[1].dst \in M}}

\* the loop of lines 148-175: one answer for each name of node_list, embed
\* being the embedding model
SearchAnswers(G, node_list, embed) ==
  [i \in DOMAIN node_list |-> SearchQuery(G, embed[node_list[i]])]

\* the entity-extraction answer of lines 56-59: at most one add_message call
AddMessage(entities) == [name |-> "add_message", arguments |-> [entities |-> entities]]

\* ExtractedEntities without the test of line 61: the first tool call is
\* read whether or not there is one
ExtractedEntitiesUnguarded(tool_calls) ==
  IF tool_calls = <<>> THEN [raised |-> "IndexError", entities |-> <<>>]
  ELSE [raised |-> NoError, entities |-> tool_calls[1].arguments.entities]

\* lines 61-64: the entities of the first tool call, or no candidate
ExtractedEntities(tool_calls) ==
  IF tool_calls # <<>>
  THEN [raised |-> NoError, entities |-> tool_calls[1].arguments.entities]
  ELSE [raised |-> NoError, entities |-> <<>>]

\* AddDataResult with the second loop run before the first: the queued
\* triples are inserted before the replacements are made
AddDataInsertFirst(G, uid, node_list, entity_calls, tool_calls, embed) ==
  LET adds == SelectSeq(tool_calls, LAMBDA c : c.name = "add_graph_memory")
      rest == SelectSeq(tool_calls, LAMBDA c : c.name # "add_graph_memory")
      i == Insert(G, [k \in DOMAIN adds |-> adds[k].arguments], embed, 0, 0)
      d == Dispatch(i.graph, rest, <<>>)
  IN  [search_output |-> SearchAnswers(G, node_list, embed),
       extracted |-> ExtractedEntities(entity_calls).entities,
       graph |-> IF uid = None THEN G ELSE IF i.raised # NoError THEN i.graph ELSE d.graph,
       inserted |-> IF uid = None THEN <<>>
                    ELSE [k \in 1..i.done |-> adds[k].arguments],
       raised |-> IF uid = None THEN "TypeError"
                  ELSE IF i.raised # NoError THEN i.raised ELSE d.raised]

\* add(data), lines 43-118, the model answering node_list's names to the
\* search extraction of line 43, entity_calls to the entity extraction and
\* tool_calls to the reconciliation: the rows _search returns, the
\* candidates, the store add() leaves and what it raises
AddDataResult(G, uid, node_list, entity_calls, tool_calls, embed) ==
  LET search_output == SearchAnswers(G, node_list, embed)
      e == ExtractedEntities(entity_calls)
      r == AddResult(G, uid, tool_calls, embed)
  IN  IF uid = None
      THEN [search_output |-> search_output, extracted |-> <<>>, graph |-> G,
            raised |-> "TypeError", inserted |-> <<>>]
      ELSE IF e.raised # NoError
      THEN [search_output |-> search_output, extracted |-> <<>>, graph |-> G,
            raised |-> e.raised, inserted |-> <<>>]
      ELSE [search_output |-> search_output, extracted |-> e.entities,
            graph |-> r.graph, raised |-> r.raised, inserted |-> r.inserted]

----------------------------------------------------------------------------
(* search(), lines 180-214, and rank_bm25's BM25Okapi as line 199 and 202   *)
(* use it.  Scores are kept in millionths.                                  *)

\* str.split(" ") over the characters still to read, cur being the token
\* read so far
RECURSIVE SplitFrom(_, _)
SplitFrom(s, cur) ==
  IF s = <<>> THEN <<cur>>
  ELSE IF Head(s) = " " THEN <<cur>> \o SplitFrom(Tail(s), <<>>)
  ELSE SplitFrom(Tail(s), Append(cur, Head(s)))

Split(s) == SplitFrom(s, <<>>)

\* line 198: the three strings of a row
Doc(row) == <<row.source, row.relation, row.destination>>

DocBag(A) ==
  [d \in {Doc(r) : r \in A} |-> Cardinality({r \in A : Doc(r) = d})]

\* line 198 over result_relations (line 175): the documents of all the
\* answers, as a bag
RECURSIVE SearchOutputsSequence(_)
SearchOutputsSequence(answers) ==
  IF answers = <<>> THEN EmptyBag
  ELSE DocBag(Head(answers)) (+) SearchOutputsSequence(Tail(answers))

\* ln(k + 0.5) for k = 0..12, in millionths, at index k + 1
LnHalf ==
  <<-693147, 405465, 916291, 1252763, 1504077, 1704748, 1871802, 2014903,
    2140066, 2251292, 2351375, 2442347, 2525729>>

Words(C) == UNION {Range(d) : d \in BagToSet(C)}

\* doc_freqs: the occurrences of word w in document d
Freq(d, w) == Cardinality({i \in DOMAIN d : d[i] = w})

\* nd: the number of documents that hold w
Nd(C, w) == Copies(C, {d \in BagToSet(C) : Freq(d, w) > 0})

\* _calc_idf: log(corpus_size - freq + 0.5) - log(freq + 0.5)
RawIdf(C, w) == LnHalf[BagCardinality(C) - Nd(C, w) + 1] - LnHalf[Nd(C, w) + 1]

RECURSIVE IdfSum(_, _)
IdfSum(C, W) ==
  IF W = {} THEN 0
  ELSE LET w == CHOOSE x \in W : TRUE
       IN  RawIdf(C, w) + IdfSum(C, W \ {w})

\* epsilon = 0.25: a negative idf is replaced by a quarter of the average
Epsilon(C) == (IdfSum(C, Words(C)) \div Cardinality(Words(C))) \div 4

\* self.idf.get(q) or 0
Idf(C, w) ==
  IF w \notin Words(C) THEN 0
  ELSE IF RawIdf(C, w) < 0 THEN Epsilon(C) ELSE RawIdf(C, w)

\* one term of get_scores with k1 = 1.5 and b = 0.75; every document has
\* three tokens, so doc_len / avgdl = 1 and the term is
\* idf * f * 2.5 / (f + 1.5)
TermScore(C, d, w) == (Idf(C, w) * 5 * Freq(d, w)) \div (2 * Freq(d, w) + 3)

RECURSIVE Score(_, _, _)
Score(C, d, query) ==
  IF query = <<>> THEN 0
  ELSE TermScore(C, d, Head(query)) + Score(C, d, Tail(query))

\* get_scores: the documents, each with its score
GetScores(C, query) == {<<d, Score(C, d, query)>> : d \in BagToSet(C)}

\* the documents of B no document of B scores above
Best(B, scores) ==
  LET left == {p \in scores : BagIn(p[1], B)}
  IN  {p[1] : p \in {x \in left : \A y \in left : y[2] <= x[2]}}

\* argsort(scores)[::-1][:n]: the n best documents of B, best first, equal
\* scores in any order
RECURSIVE TopOrders(_, _, _)
TopOrders(B, scores, n) ==
  IF n = 0 \/ BagToSet(B) = {} THEN {<<>>}
  ELSE UNION {{<<d>> \o t : t \in TopOrders(B (-) SetToBag({d}), scores, n - 1)}
              : d \in Best(B, scores)}

\* get_top_n without [:n]: every document, best first
GetTopAll(C, query, n) == TopOrders(C, GetScores(C, query), BagCardinality(C))

\* get_top_n(query, documents, n)
GetTopN(C, query, n) == TopOrders(C, GetScores(C, query), n)

\* line 202
TopN == 5

\* the most rows a search is let to obtain
MaxRows == 6

\* lines 204-210
SearchResult(item) ==
  [source |-> item[1], relation |-> item[2], destination |-> item[3]]

\* len(result_relations)
RECURSIVE CountRows(_)
CountRows(answers) ==
  IF answers = <<>> THEN 0
  ELSE Cardinality(Head(answers)) + CountRows(Tail(answers))

\* lines 199-210: BM25Okapi(corpus) divides by the corpus size (avgdl) and
\* raises on an empty corpus; otherwise the lists get_top_n may return
Rerank(C, query) ==
  IF BagToSet(C) = {}
  THEN {[raised |-> "ZeroDivisionError", results |-> <<>>]}
  ELSE {[raised |-> NoError, results |-> [i \in DOMAIN t |-> SearchResult(t[i])]]
          : t \in GetTopN(C, Split(query), TopN)}

\* search(query) once _search has its answers: what it raises and returns
SearchResults(query, answers) ==
  IF CountRows(answers) = 0
  THEN {[raised |-> NoError, results |-> <<>>]}
  ELSE Rerank(SearchOutputsSequence(answers), query)

----------------------------------------------------------------------------
(* History *)

Put(f, key, v) == [x \in (DOMAIN f) \cup {key} |-> IF x = key THEN v ELSE f[x]]

\* the embeddings the inserted triples hand to the store, source before
\* destination, triple after triple
RECURSIVE Record(_, _, _)
Record(sup, inserted, embed) ==
  IF inserted = <<>> THEN sup
  ELSE LET p == AddParams(Head(inserted), embed)
           s1 == Put(sup, <<p.source, p.source_type>>, p.source_embedding)
       IN  Record(Put(s1, <<p.destination, p.destination_type>>, p.dest_embedding),
                  Tail(inserted), embed)

\* the nodes whose embedding a call replaced by another one
Overwritten(old, new) ==
  {n \in (DOMAIN old) \cap (DOMAIN new) : old[n] # new[n]}

Names(calls) == [i \in DOMAIN calls |-> calls[i].name]

----------------------------------------------------------------------------
(* add() statement by statement: between two statements of a call, the      *)
(* statements of other clients of the store may run                         *)

\* the callers whose add() runs statement by statement
Callers == {1, 2}

\* one of them, when a single add() is taken statement by statement
OneCaller == {1}

Idle == [pc |-> "idle"]

\* the call at line 30: nothing handled yet
Started(tool_calls, embed) ==
  [pc |-> "dispatch", names |-> Names(tool_calls), batch |-> tool_calls,
   tool_calls |-> tool_calls, to_be_added |-> <<>>, queued |-> 0, embed |-> embed, created |-> 0,
   overwritten |-> 0, raised |-> NoError, message |-> <<>>]

Raise(c, error, message) ==
  [c EXCEPT !.pc = "raise", !.raised = error, !.message = message]

\* the call moves on to its next statement: through the loop of lines 77-83
\* (pc = "dispatch") up to an update (pc = "ensure"), then through the loop
\* of lines 85-116 (pc = "insert") up to an insertion (pc = "query"), or to
\* its end (pc = "return" or "raise")
RECURSIVE Proceed(_)
Proceed(c) ==
  IF c.pc = "dispatch"
  THEN IF c.tool_calls = <<>> THEN Proceed([c EXCEPT !.pc = "insert"])
       ELSE LET item == Head(c.tool_calls)
            IN  IF item.name = "add_graph_memory"
                THEN Proceed([c EXCEPT !.tool_calls = Tail(c.tool_calls),
                                       !.to_be_added = Append(c.to_be_added, item.arguments),
                                       !.queued = c.queued + 1])
                ELSE IF item.name = "update_graph_memory"
                THEN IF HasKeys(item.arguments, {"source", "destination", "relationship"})
                     THEN [c EXCEPT !.pc = "ensure"]
                     ELSE Raise(c, "KeyError", <<>>)
                ELSE Proceed([c EXCEPT !.tool_calls = Tail(c.tool_calls)])
  ELSE IF c.pc = "insert"
  THEN IF c.to_be_added = <<>> THEN [c EXCEPT !.pc = "return"]
       ELSE IF HasKeys(Head(c.to_be_added), {"source", "source_type", "relationship",
                                             "destination", "destination_type"})
            THEN [c EXCEPT !.pc = "query"]
            ELSE Raise(c, "KeyError", <<>>)
  ELSE c

\* the arguments of the update the call is at
Update(c) == Head(c.tool_calls).arguments

\* line 296: the message names source and target
FailedToUpdate(source, target) == [source |-> source, target |-> target]

----------------------------------------------------------------------------
(* merge_metadata_dict (src/embedchain/memory/utils.py).  A value is a      *)
(* record [t, s, n, ref]: its type, and its string, its number or the       *)
(* address of its dict, whichever its type uses.  The heap is the sequence  *)
(* of the dicts allocated, a dict being the sequence of its (key, value)    *)
(* items in insertion order.                                                *)

NoneValue == [t |-> "NoneType", s |-> <<>>, n |-> 0, ref |-> 0]

StrValue(s) == [t |-> "str", s |-> s, n |-> 0, ref |-> 0]

IntValue(n) == [t |-> "int", s |-> <<>>, n |-> n, ref |-> 0]

DictAt(ref) == [t |-> "dict", s |-> <<>>, n |-> 0, ref |-> ref]

Keys(d) == {d[i][1] : i \in DOMAIN d}

\* d[k], for a key d has
Get(d, k) == d[CHOOSE i \in DOMAIN d : d[i][1] = k][2]

\* d[k] = v: in place for a key d has, at the end for a new one
WithItem(d, k, v) ==
  IF k \in Keys(d)
  THEN [i \in DOMAIN d |-> IF d[i][1] = k THEN <<k, v>> ELSE d[i]]
  ELSE Append(d, <<k, v>>)

\* not x, for x None or a dict
Falsy(heap, x) == x.t = "NoneType" \/ (x.t = "dict" /\ heap[x.ref] = <<>>)

\* the store of merged[k] = v
SetItem(heap, ref, k, v) == [heap EXCEPT ![ref] = WithItem(heap[ref], k, v)]

\* DictCopy without the copy: merged is left itself
DictAlias(heap, ref) == [heap |-> heap, ref |-> ref]

\* line 23, left.copy(): a new dict with the items of the old one
DictCopy(heap, ref) == [heap |-> Append(heap, heap[ref]), ref |-> Len(heap) + 1]

Raised(heap, error) == [heap |-> heap, ret |-> NoneValue, raised |-> error]

Returned(heap, v) == [heap |-> heap, ret |-> v, raised |-> "none"]

RECURSIVE MergeMetadataDict(_, _, _)
RECURSIVE MergeItems(_, _, _, _)

\* the loop of lines 26-38 from the i-th item of right on, merged being the
\* dict at m
MergeItems(heap, m, items, i) ==
  IF i > Len(items) THEN Returned(heap, DictAt(m))
  ELSE LET k == items[i][1]
           v == items[i][2]
       IN  IF k \notin Keys(heap[m])
           THEN MergeItems(SetItem(heap, m, k, v), m, items, i + 1)
           ELSE IF Get(heap[m], k).t # v.t THEN Raised(heap, "ValueError")
           ELSE IF v.t = "str"
           THEN MergeItems(SetItem(heap, m, k, StrValue(Get(heap[m], k).s \o v.s)),
                           m, items, i + 1)
           ELSE IF v.t = "dict"
           THEN LET r == MergeMetadataDict(heap, Get(heap[m], k), v)
                IN  IF r.raised # "none" THEN r
                    ELSE MergeItems(SetItem(r.heap, m, k, r.ret), m, items, i + 1)
           ELSE Raised(heap, "ValueError")

\* merge_metadata_dict(left, right), lines 16-39: the heap it leaves, what
\* it returns and what it raises
MergeMetadataDict(heap, left, right) ==
  IF Falsy(heap, left) /\ Falsy(heap, right) THEN Returned(heap, NoneValue)
  ELSE IF Falsy(heap, left) THEN Returned(heap, right)
  ELSE IF Falsy(heap, right) THEN Returned(heap, left)
  ELSE LET c == DictCopy(heap, left.ref)
       IN  MergeItems(c.heap, c.ref, heap[right.ref], 1)

(* The arguments of a call, written as literals: a literal is a record      *)
(* [t, s, n, items], items being the (key, literal) pairs of a dict.        *)

LNone == [t |-> "NoneType", s |-> <<>>, n |-> 0, items |-> <<>>]

LStr(s) == [t |-> "str", s |-> s, n |-> 0, items |-> <<>>]

LInt(n) == [t |-> "int", s |-> <<>>, n |-> n, items |-> <<>>]

LDict(items) == [t |-> "dict", s |-> <<>>, n |-> 0, items |-> items]

RECURSIVE Alloc(_, _)
RECURSIVE AllocItems(_, _, _, _)

\* the items of a dict literal from the i-th on, d being the dict so far
AllocItems(heap, items, i, d) ==
  IF i > Len(items) THEN [heap |-> heap, d |-> d]
  ELSE LET r == Alloc(heap, items[i][2])
       IN  AllocItems(r.heap, items, i + 1, Append(d, <<items[i][1], r.v>>))

\* the evaluation of a literal: the heap with its dicts and its value
Alloc(heap, lit) ==
  IF lit.t = "dict"
  THEN LET r == AllocItems(heap, lit.items, 1, <<>>)
       IN  [heap |-> Append(r.heap, r.d), v |-> DictAt(Len(r.heap) + 1)]
  ELSE IF lit.t = "str" THEN [heap |-> heap, v |-> StrValue(lit.s)]
  ELSE IF lit.t = "int" THEN [heap |-> heap, v |-> IntValue(lit.n)]
  ELSE [heap |-> heap, v |-> NoneValue]

RECURSIVE View(_, _)

\* what a value is, its dicts read from the heap: a dict is the function
\* from its keys to what its values are
View(heap, v) ==
  IF v.t = "dict"
  THEN [t |-> "dict", s |-> <<>>, n |-> 0,
        items |-> [k \in Keys(heap[v.ref]) |-> View(heap, Get(heap[v.ref], k))]]
  ELSE [t |-> v.t, s |-> v.s, n |-> v.n, items |-> <<>>]

StrX == <<"x">>

StrY == <<"y">>

Metadatas ==
  { LNone,
    LDict(<<>>),
    LDict(<< <<"a", LInt(1)>> >>),
    LDict(<< <<"a", LStr(StrY)>> >>),
    LDict(<< <<"a", LStr(StrX)>>, <<"b", LStr(StrY)>> >>),
    LDict(<< <<"b", LStr(StrX)>> >>),
    LDict(<< <<"a", LDict(<< <<"n", LInt(1)>> >>)>> >>),
    LDict(<< <<"a", LDict(<< <<"m", LInt(2)>> >>)>> >>),
    LDict(<< <<"a", LDict(<<>>)>> >>),
    LDict(<< <<"b", LStr(StrY)>>, <<"a", LDict(<< <<"n", LStr(StrX)>> >>)>> >>),
    LDict(<< <<"a", LDict(<< <<"n", LDict(<< <<"p", LStr(StrX)>> >>)>> >>)>> >>),
    LDict(<< <<"a", LDict(<< <<"n", LDict(<< <<"p", LStr(StrY)>>, <<"q", LInt(2)>> >>)>> >>)>> >>),
    LDict(<< <<"a", LNone>> >>) }

----------------------------------------------------------------------------
(* PineconeDb (src/embedchain/vectordb/pineconedb.py): the index is the set *)
(* of the ids upserted.                                                     *)

DocIds == {"d1", "d2", "d3", "d4"}

\* self.client.upsert(docs): the ids of docs are in the index afterwards
ClientUpsert(index, ids) == index \cup ids

\* self.client.query(ids=id)["matches"]: the vectors of the index with this id
ClientQuery(index, id) == IF id \in index THEN <<id>> ELSE <<>>

\* line 77, ids = set(): the name of the parameter is bound to a new empty
\* set, whatever the caller passed
Rebound(ids) == {}

\* PineconeDb.get(ids), lines 77-83: the loop runs over the set that it fills
PineconeGetResult(index, ids) ==
  [ids |-> {id \in Rebound(ids) : ClientQuery(index, id) # <<>>}]

----------------------------------------------------------------------------
(* Pipeline.deploy (src/embedchain/pipeline.py): a row of data_sources is   *)
(* [file, is_uploaded], file telling whether its value is an absolute path. *)

\* the hashes of the data sources; the first two are local files
DataHashes == {"h1", "h2", "h3"}

IsFile(hash) == hash \in {"h1", "h2"}

\* what the requests for one row meet: every request succeeds, the request
\* for a presigned URL fails, the PUT of the file fails, the request to the
\* add endpoint fails
Outcomes(hash) ==
  IF IsFile(hash) THEN {"ok", "presign_error", "put_failed", "api_failed"}
  ELSE {"ok", "api_failed"}

\* lines 245-250: UPDATE data_sources SET is_uploaded = 1 WHERE hash = ?
MarkDataAsUploaded(rows, hash) ==
  [h \in DOMAIN rows |-> IF h = hash THEN [rows[h] EXCEPT !.is_uploaded = 1] ELSE rows[h]]

\* _process_and_upload_data(data_hash, ...), lines 221-243, the requests
\* meeting outcome o: the rows and what the platform has received after it,
\* what it returns and what it raises.  _upload_data_to_pipeline (200-212)
\* catches the failure of its request and returns
ProcessAndUploadData(rows, received, hash, o) ==
  IF rows[hash].file /\ o = "presign_error"
  THEN [rows |-> rows, received |-> received, ret |-> FALSE, raised |-> "HTTPError"]
  ELSE IF rows[hash].file /\ o = "put_failed"
  THEN [rows |-> rows, received |-> received, ret |-> FALSE, raised |-> "none"]
  ELSE [rows |-> MarkDataAsUploaded(rows, hash),
        received |-> IF o = "api_failed" THEN received ELSE received \cup {hash},
        ret |-> TRUE, raised |-> "none"]

\* the loop of lines 265-267 over the rows selected, in the order fetchall
\* gives them, which the SELECT does not fix: the outcomes it can have
RECURSIVE UploadAll(_, _, _, _)
UploadAll(rows, received, pending, out) ==
  IF pending = {} THEN {[rows |-> rows, received |-> received, raised |-> "none"]}
  ELSE UNION {LET r == ProcessAndUploadData(rows, received, h, out[h])
              IN  IF r.raised # "none"
                  THEN {[rows |-> r.rows, received |-> r.received, raised |-> r.raised]}
                  ELSE UploadAll(r.rows, r.received, pending \ {h}, out) :
                h \in pending}

\* line 260: SELECT ... WHERE is_uploaded = 0
NotUploaded(rows) == {h \in DOMAIN rows : rows[h].is_uploaded = 0}

----------------------------------------------------------------------------
(* Completions.create (src/mem0/proxy/main.py).  A message is a dict object *)
(* [role, content] on a heap; a list of messages is a sequence of           *)
(* references into it, so that two lists may hold the same object.          *)

Message(role, content) == [role |-> role, content |-> content]

\* MEMORY_ANSWER_PROMPT, line 7
MEMORY_ANSWER_PROMPT == <<"MEMORY_ANSWER_PROMPT">>

\* the messages of the references in list, as they are on the heap now
Contents(heap, list) == [i \in DOMAIN list |-> heap[list[i]]]

\* _prepare_messages(messages), lines 122-126: the heap it leaves and the
\* list it returns
PrepareMessages(heap, messages) ==
  IF messages = <<>> \/ heap[messages[1]].role # "system"
  THEN [heap |-> Append(heap, Message("system", MEMORY_ANSWER_PROMPT)),
        ret |-> <<Len(heap) + 1>> \o messages]
  ELSE [heap |-> [heap EXCEPT ![messages[1]].content = MEMORY_ANSWER_PROMPT],
        ret |-> messages]

\* _format_query_with_memories(messages, relevant_memories), from line 153:
\* a new string made of the memories and of the query
FormatQueryWithMemories(relevant_memories) ==
  <<"memories">> \o relevant_memories \o <<"query">>

\* no call of create() made yet
ProxyIdle == [pc |-> "idle", thread |-> "none"]

----------------------------------------------------------------------------
(* CustomApp.__init__ (src/embedchain/apps/CustomApp.py).  An argument is   *)
(* the name of its class, "NoneType" for None.                              *)

NoneType == "NoneType"

\* isinstance(x, cls), every class here being its own only base
IsInstance(x, cls) == x = cls

\* the truth value of an argument: None is false, as is no other value here
Truthy(x) == x # NoneType

Configs == {NoneType, "str", "CustomAppConfig"}

AppConfigs == {NoneType, "CustomAppConfig"}

Llms == {NoneType, "BaseLlm", "object"}

Dbs == {NoneType, "BaseVectorDB", "object"}

Embedders == {NoneType, "BaseEmbedder", "object"}

SystemPrompts == {NoneType, "str"}

\* lines 57-63: a CustomAppConfig passed as config is taken as app_config
Swapped(a) ==
  IF IsInstance(a.config, "CustomAppConfig")
  THEN [a EXCEPT !.app_config = a.config, !.config = NoneType]
  ELSE a

Raises(error, about) == [raised |-> error, about |-> about, parent |-> FALSE]

\* lines 65-102 on the arguments after the swap: the exception raised and
\* the argument it is about, or the call of super().__init__
Checked(a) ==
  IF Truthy(a.config) /\ (Truthy(a.app_config) \/ Truthy(a.llm) \/ Truthy(a.db)
                          \/ Truthy(a.embedder) \/ Truthy(a.system_prompt))
  THEN Raises("ValueError", "yaml")
  ELSE IF a.llm = NoneType THEN Raises("ValueError", "llm")
  ELSE IF a.db = NoneType THEN Raises("ValueError", "db")
  ELSE IF a.embedder = NoneType THEN Raises("ValueError", "embedder")
  ELSE IF ~IsInstance(a.config, "CustomAppConfig") THEN Raises("TypeError", "config")
  ELSE IF ~IsInstance(a.llm, "BaseLlm") THEN Raises("TypeError", "llm")
  ELSE IF ~IsInstance(a.db, "BaseVectorDB") THEN Raises("TypeError", "db")
  ELSE IF ~IsInstance(a.embedder, "BaseEmbedder") THEN Raises("TypeError", "embedder")
  ELSE [raised |-> "none", about |-> "", parent |-> TRUE]

\* CustomApp.__init__, lines 57-102
CustomAppInit(a) == Checked(Swapped(a))

----------------------------------------------------------------------------
(* The operations, each run alone *)

SetGraph(G) ==
  /\ BagCardinality(G.edges) <= MaxEdges
  /\ nodes' = G.nodes
  /\ embedding' = G.embedding
  /\ edges' = G.edges

Init ==
  /\ nodes = {}
  /\ embedding = <<>>
  /\ edges = EmptyBag
  /\ user_id = None
  /\ running = [p \in Callers |-> Idle]
  /\ supplied = <<>>
  /\ last = [op |-> "init"]
  /\ merge = [called |-> FALSE]
  /\ pinecone = [index |-> {}, called |-> "init", ids |-> {}, ret |-> [ids |-> {}]]
  /\ app = [called |-> FALSE]
  /\ pipeline = [rows |-> <<>>, received |-> {}, called |-> FALSE]
  /\ proxy = ProxyIdle

\* the owner of the MemoryGraph sets the caller identity (the field of line 27)
SetUserId(u) ==
  /\ user_id' = u
  /\ last' = [op |-> "user_id"]
  /\ UNCHANGED <<embedchain, nodes, embedding, edges, running, supplied>>

Add(tool_calls, embed) ==
  \E r \in {AddResult(Graph, user_id, tool_calls, embed)} :
    /\ SetGraph(r.graph)
    /\ supplied' = Record(supplied, r.inserted, embed)
    /\ last' = [op |-> "add", tool_calls |-> Names(tool_calls),
                raised |-> r.raised, ret |-> r.ret, logged |-> r.logged,
                created |-> r.created,
                overwritten |-> Cardinality(Overwritten(embedding, r.graph.embedding))]
    /\ UNCHANGED <<embedchain, user_id, running>>

UpdateRelationship(source, target, relationship) ==
  \E r \in {UpdateResult(Graph, source, target, relationship)} :
    /\ SetGraph(r.graph)
    /\ last' = [op |-> "_update_relationship", source |-> source, target |-> target,
                relationship |-> relationship, raised |-> r.raised]
    /\ UNCHANGED <<embedchain, user_id, running, supplied>>

\* delete_all, lines 217-222: MATCH (n) DETACH DELETE n
DeleteAll ==
  /\ SetGraph(EmptyGraph)
  /\ supplied' = <<>>
  /\ last' = [op |-> "delete_all"]
  /\ UNCHANGED <<embedchain, user_id, running>>

\* the sources and relationships _update_relationship is called with
UpdateCalls ==
  {<<new_york, likes>>, <<new_york, dislikes>>, <<NewYork, likes>>, <<NewYork, Dislikes>>}

Next ==
  \/ \E u \in Users : SetUserId(u)
  \/ \E tool_calls \in Batches, embed \in EmbedFns : Add(tool_calls, embed)
  \/ \E u \in UpdateCalls : UpdateRelationship(u[1], alice, u[2])
  \/ DeleteAll

Spec == Init /\ [][Next]_vars

\* add() and delete_all() only
NextAdd ==
  \/ \E u \in Users : SetUserId(u)
  \/ \E tool_calls \in Batches, embed \in EmbedFns : Add(tool_calls, embed)
  \/ DeleteAll

SpecAdd == Init /\ [][NextAdd]_vars

\* the search-extraction answers of the model
SearchToolCalls ==
  {<<>>,
   <<SearchCall(<<alice>>, <<>>)>>,
   <<SearchCall(<<NewYork, new_york>>, <<likes>>)>>,
   <<SearchCall(<<new_york>>, <<>>), SearchCall(<<alice, new_york>>, <<likes>>)>>,
   <<[name |-> "lookup", arguments |-> [nodes |-> <<alice>>]]>>}

\* the embedding model when it is given the names of a query
QueryEmbedFns ==
  {[n \in NormNames |-> EUnit],
   [n \in NormNames |-> IF n = alice THEN EUnit ELSE EAt]}

\* the embedding model when it is given the names of a triple; ERound is at
\* 0.69995... from EUnit
TripleEmbedFns ==
  EmbedFns \cup {[n \in NormNames |-> IF n = alice THEN EBelow ELSE ERound]}

\* the reconciliation answers that fill the store searched
TripleBatches ==
  {<<AddMemory(new_york, City, likes, alice, person)>>,
   <<AddMemory(NewYork, City, Dislikes, alice, person)>>,
   <<UpdateMemory(new_york, alice, Dislikes)>>}

WhoLikesAlice ==
  <<"w", "h", "o", " ", "l", "i", "k", "e", "s", " ", "a", "l", "i", "c", "e">>

Queries == {WhoLikesAlice, NewYork}

Rows(answers) == UNION Range(answers)

\* search(query), the model answering tool_calls to the search extraction
Search(query, tool_calls, embed) ==
  \E node_list \in NodeLists(tool_calls) :
    \E answers \in {SearchAnswers(Graph, node_list, embed)} :
      /\ CountRows(answers) <= MaxRows
      /\ \E r \in SearchResults(query, answers) :
           last' = [op |-> "search", query |-> query, node_list |-> node_list,
                    n_embedding |-> [i \in DOMAIN node_list |-> embed[node_list[i]]],
                    answers |-> answers, results |-> r.results, raised |-> r.raised]
      /\ UNCHANGED <<embedchain, nodes, embedding, edges, user_id, running, supplied>>

\* add(), delete_all() and search()
NextSearch ==
  \/ \E u \in Users : SetUserId(u)
  \/ \E tool_calls \in TripleBatches, embed \in TripleEmbedFns : Add(tool_calls, embed)
  \/ DeleteAll
  \/ \E query \in Queries, tool_calls \in SearchToolCalls, embed \in QueryEmbedFns :
       Search(query, tool_calls, embed)

SpecSearch == Init /\ [][NextSearch]_vars

\* the answers to the search extraction of line 43 and to the entity
\* extraction of line 56: no tool call, or one
ExtractionAnswers ==
  {<< <<>>, <<>> >>,
   << <<SearchCall(<<alice>>, <<>>)>>,
      <<AddMessage(<<[source |-> NewYork, relation |-> likes, destination |-> alice]>>)>> >>}

\* a tool call that lacks the arguments its name requires
MissingArguments(name) == [name |-> name, arguments |-> [source |-> new_york]]

\* the reconciliation answers: none, one call, two calls
DataBatches ==
  {<<>>,
   <<Noop>>,
   <<AddMemory(new_york, City, likes, alice, person)>>,
   <<AddMemory(alice, person, likes, new_york, City)>>,
   <<UpdateMemory(new_york, alice, Dislikes)>>,
   <<UpdateMemory(alice, new_york, likes)>>,
   <<UpdateMemory(NewYork, alice, likes)>>,
   <<AddMemory(new_york, City, likes, alice, person), UpdateMemory(new_york, alice, dislikes)>>,
   <<UpdateMemory(new_york, alice, dislikes), AddMemory(new_york, City, likes, alice, person)>>,
   <<AddMemory(NewYork, City, likes, alice, person), UpdateMemory(NewYork, alice, likes)>>,
   <<UpdateMemory(new_york, alice, likes), MissingArguments("update_graph_memory")>>,
   <<AddMemory(new_york, City, Dislikes, alice, person), MissingArguments("add_graph_memory")>>}

\* add(data), with the three answers of the model
AddData(search_calls, entity_calls, tool_calls, embed) ==
  \E node_list \in NodeLists(search_calls) :
    \E r \in {AddDataResult(Graph, user_id, node_list, entity_calls, tool_calls, embed)} :
      /\ SetGraph(r.graph)
      /\ supplied' = Record(supplied, r.inserted, embed)
      /\ last' = [op |-> "add", search_calls |-> search_calls,
                  entity_calls |-> entity_calls, tool_calls |-> tool_calls,
                  rows |-> Rows(r.search_output), extracted |-> r.extracted,
                  raised |-> r.raised]
      /\ UNCHANGED <<embedchain, user_id, running>>

\* add() with all its answers, _update_relationship and delete_all()
NextBatch ==
  \/ \E u \in Users : SetUserId(u)
  \/ \E a \in ExtractionAnswers, tool_calls \in DataBatches, embed \in EmbedFns :
       AddData(a[1], a[2], tool_calls, embed)
  \/ \E u \in {<<new_york, alice, dislikes>>, <<alice, new_york, likes>>} :
       UpdateRelationship(u[1], u[2], u[3])
  \/ DeleteAll

SpecBatch == Init /\ [][NextBatch]_vars

\* the strings of the people graph
bob == <<"b", "o", "b">>

paris == <<"p", "a", "r", "i", "s">>

Alice == <<"A", "l", "i", "c", "e">>

lives_in == <<"l", "i", "v", "e", "s", "_", "i", "n">>

WhereDoesAliceLive ==
  <<"W", "h", "e", "r", "e", " ", "d", "o", "e", "s", " ", "A", "l", "i", "c", "e", " ", "l", "i", "v", "e", "?">>

PeopleNames == {alice, bob, paris}

\* the embedding model on the names of the people graph: every name on the
\* direction of alice, the other names at the threshold, or below it
PeopleEmbedFns ==
  {[n \in PeopleNames |-> IF n = alice THEN EUnit ELSE e] : e \in {EUnit, EAt, EBelow}}

\* the reconciliation answers that fill the people graph
PeopleBatches ==
  {<<AddMemory(n, person, lives_in, paris, city)>> : n \in {alice, bob}}

\* the search-extraction answers for the query
PeopleSearchCalls ==
  {<<SearchCall(<<Alice>>, <<lives_in>>)>>, <<SearchCall(<<alice, paris>>, <<>>)>>}

\* add(), delete_all() and search() on the people graph
NextPeople ==
  \/ \E u \in Users : SetUserId(u)
  \/ \E tool_calls \in PeopleBatches, embed \in PeopleEmbedFns : Add(tool_calls, embed)
  \/ DeleteAll
  \/ \E tool_calls \in PeopleSearchCalls, embed \in PeopleEmbedFns :
       Search(WhereDoesAliceLive, tool_calls, embed)

SpecPeople == Init /\ [][NextPeople]_vars

\* add(data) is called: lines 30-76, up to the first statement
AddBegin(p, tool_calls, embed) ==
  /\ running[p] = Idle
  /\ running' = [running EXCEPT ![p] =
                   IF user_id = None
                   THEN Raise(Started(tool_calls, embed), "TypeError", <<>>)
                   ELSE Proceed(Started(tool_calls, embed))]
  /\ UNCHANGED <<embedchain, nodes, embedding, edges, user_id, supplied, last>>

\* check_and_create_query, line 278
UpdateEnsure(p) ==
  /\ running[p].pc = "ensure"
  /\ SetGraph(EnsureNodes(Graph, Update(running[p]).source,
                          Update(running[p]).destination))
  /\ running' = [running EXCEPT ![p].pc = "delete"]
  /\ UNCHANGED <<embedchain, user_id, supplied, last>>

\* delete_query, line 285
UpdateDelete(p) ==
  /\ running[p].pc = "delete"
  /\ SetGraph(DeleteRelationships(Graph, Update(running[p]).source,
                                  Update(running[p]).destination))
  /\ running' = [running EXCEPT ![p].pc = "create"]
  /\ UNCHANGED <<embedchain, user_id, supplied, last>>

\* create_query and the test of its result, lines 293-296
UpdateCreate(p) ==
  \E c \in {running[p]} :
    /\ c.pc = "create"
    /\ SetGraph(CreateRelationship(Graph, Update(c).source, Update(c).destination,
                                   Normalize(Update(c).relationship)))
    /\ running' = [running EXCEPT ![p] =
         IF Failed(CreateRows(Graph, Update(c).source, Update(c).destination))
         THEN Raise(c, "Exception",
                    FailedToUpdate(Update(c).source, Update(c).destination))
         ELSE Proceed([c EXCEPT !.pc = "dispatch", !.tool_calls = Tail(c.tool_calls)])]
    /\ UNCHANGED <<embedchain, user_id, supplied, last>>

\* the statement of line 116 for the first triple still queued
AddInsert(p) ==
  \E c \in {running[p]} :
    /\ c.pc = "query"
    /\ \E q \in {AddQuery(Graph, AddParams(Head(c.to_be_added), c.embed))} :
         /\ SetGraph(q.graph)
         /\ running' = [running EXCEPT ![p] =
              Proceed([c EXCEPT !.pc = "insert",
                                !.to_be_added = Tail(c.to_be_added),
                                !.created = c.created + q.created,
                                !.overwritten = c.overwritten +
                                  Cardinality(Overwritten(embedding, q.graph.embedding))])]
    /\ supplied' = Record(supplied, <<Head(c.to_be_added)>>, c.embed)
    /\ UNCHANGED <<embedchain, user_id, last>>

\* add() ends: it returns after line 118, or the exception leaves it; no
\* statement of add() catches one
AddEnd(p) ==
  \E c \in {running[p]} :
    /\ c.pc \in {"return", "raise"}
    /\ running' = [running EXCEPT ![p] = Idle]
    /\ last' = [op |-> "add", tool_calls |-> c.names, raised |-> c.raised,
                ret |-> None,
                logged |-> IF c.raised = NoError THEN <<c.queued>> ELSE None,
                created |-> c.created, overwritten |-> c.overwritten,
                message |-> c.message]
    /\ UNCHANGED <<embedchain, nodes, embedding, edges, user_id, supplied>>

\* add() statement by statement, and delete_all()
NextRace ==
  \/ \E u \in Users : SetUserId(u)
  \/ \E p \in OneCaller, tool_calls \in Batches, embed \in EmbedFns :
       AddBegin(p, tool_calls, embed)
  \/ \E p \in OneCaller : UpdateEnsure(p)
  \/ \E p \in OneCaller : UpdateDelete(p)
  \/ \E p \in OneCaller : UpdateCreate(p)
  \/ \E p \in OneCaller : AddInsert(p)
  \/ \E p \in OneCaller : AddEnd(p)
  \/ DeleteAll

SpecRace == Init /\ [][NextRace]_vars

\* the reconciliation answers that replace the relationship of one pair
ReplaceBatches == {<<UpdateMemory(new_york, alice, r)>> : r \in {likes, dislikes}}

\* two add() calls, each with one replacement of the same pair, their
\* statements interleaved
NextTwo ==
  \/ \E u \in Users : SetUserId(u)
  \/ \E p \in Callers, tool_calls \in ReplaceBatches, embed \in EmbedFns :
       AddBegin(p, tool_calls, embed)
  \/ \E p \in Callers : UpdateEnsure(p)
  \/ \E p \in Callers : UpdateDelete(p)
  \/ \E p \in Callers : UpdateCreate(p)
  \/ \E p \in Callers : AddEnd(p)

SpecTwo == Init /\ [][NextTwo]_vars

\* self.graph.query raises (the store is down, the connection is lost): the
\* statement the call is at is not applied and the exception leaves add()
StoreFailure(p) ==
  \E c \in {running[p]} :
    /\ c.pc \in {"ensure", "delete", "create", "query"}
    /\ running' = [running EXCEPT ![p] = Raise(c, "StoreError", <<>>)]
    /\ UNCHANGED <<embedchain, nodes, embedding, edges, user_id, supplied, last>>

\* a tool call whose name is none of the three tools of line 72
UnknownCall ==
  [name |-> "delete_graph_memory",
   arguments |-> [source |-> new_york, destination |-> alice]]

\* the reconciliation answers of two calls
PairBatches ==
  {<<UpdateMemory(new_york, alice, likes), UpdateMemory(new_york, alice, dislikes)>>,
   <<AddMemory(new_york, City, likes, alice, person), UpdateMemory(new_york, alice, dislikes)>>,
   <<UpdateMemory(new_york, alice, likes), AddMemory(alice, person, likes, new_york, City)>>,
   <<AddMemory(new_york, City, likes, alice, person),
     AddMemory(alice, person, Dislikes, new_york, City)>>,
   <<UpdateMemory(alice, new_york, likes), MissingArguments("update_graph_memory")>>,
   <<UnknownCall, AddMemory(new_york, City, likes, alice, person)>>}

\* one add() statement by statement, the store failing at any statement
NextFail ==
  \/ \E u \in Users : SetUserId(u)
  \/ \E p \in OneCaller, tool_calls \in PairBatches, embed \in EmbedFns :
       AddBegin(p, tool_calls, embed)
  \/ \E p \in OneCaller : UpdateEnsure(p)
  \/ \E p \in OneCaller : UpdateDelete(p)
  \/ \E p \in OneCaller : UpdateCreate(p)
  \/ \E p \in OneCaller : AddInsert(p)
  \/ \E p \in OneCaller : AddEnd(p)
  \/ \E p \in OneCaller : StoreFailure(p)

SpecFail == Init /\ [][NextFail]_vars

\* the reconciliation answers that fill the store searched statement by
\* statement
RowBatches ==
  {<<AddMemory(new_york, City, likes, alice, person)>>,
   <<UpdateMemory(new_york, alice, Dislikes)>>,
   <<UpdateMemory(NewYork, alice, likes)>>,
   <<UpdateMemory(alice, NewYork, likes)>>}

\* the embedding model of those calls: every name at the threshold, or alice
\* below it
RowEmbedFns ==
  {[n \in NormNames |-> EAt],
   [n \in NormNames |-> IF n = alice THEN EBelow ELSE EAt]}

\* the entity extraction answers of the searches of that store
RowSearchCalls ==
  {<<SearchCall(<<alice>>, <<>>)>>,
   <<SearchCall(<<new_york>>, <<likes>>)>>}

\* one add() statement by statement, the store failing at any statement, and
\* search()
NextRows ==
  \/ \E u \in Users : SetUserId(u)
  \/ \E p \in OneCaller, tool_calls \in RowBatches, embed \in RowEmbedFns :
       AddBegin(p, tool_calls, embed)
  \/ \E p \in OneCaller : UpdateEnsure(p)
  \/ \E p \in OneCaller : UpdateDelete(p)
  \/ \E p \in OneCaller : UpdateCreate(p)
  \/ \E p \in OneCaller : AddInsert(p)
  \/ \E p \in OneCaller : AddEnd(p)
  \/ \E p \in OneCaller : StoreFailure(p)
  \/ \E query \in {WhoLikesAlice}, tool_calls \in RowSearchCalls :
       Search(query, tool_calls, [n \in NormNames |-> EUnit])

SpecRows == Init /\ [][NextRows]_vars

\* the identities of the callers that share one MemoryGraph
Identities == {alice, bob}

\* a caller of identity u sets the field of line 27 and calls add(data)
AddCall(p, u) ==
  /\ running[p] = Idle
  /\ user_id' = u
  /\ running' = [running EXCEPT ![p] = [pc |-> "search_prompt", caller |-> u]]
  /\ UNCHANGED <<embedchain, nodes, embedding, edges, supplied, last>>

\* line 43 into _search, lines 122-128: the prompt is formatted with the
\* field as it is now
SearchPrompt(p) ==
  \E c \in {running[p]} :
    /\ c.pc = "search_prompt"
    /\ running' = [running EXCEPT ![p] =
         [pc |-> "entity_prompt", caller |-> c.caller, search_user |-> user_id]]
    /\ UNCHANGED <<embedchain, nodes, embedding, edges, user_id, supplied, last>>

\* lines 45-59: USER_ID is replaced by the field as it is now
EntityPrompt(p) ==
  \E c \in {running[p]} :
    /\ c.pc = "entity_prompt"
    /\ running' = [running EXCEPT ![p] =
         [pc |-> "prompted", caller |-> c.caller, search_user |-> c.search_user,
          entity_user |-> user_id]]
    /\ UNCHANGED <<embedchain, nodes, embedding, edges, user_id, supplied, last>>

\* the rest of add(), the model answering no tool call: lines 61-118
AddReturn(p) ==
  \E c \in {running[p]} :
    /\ c.pc = "prompted"
    /\ running' = [running EXCEPT ![p] = Idle]
    /\ last' = [op |-> "add", caller |-> c.caller, search_user |-> c.search_user,
                entity_user |-> c.entity_user, raised |-> NoError]
    /\ UNCHANGED <<embedchain, nodes, embedding, edges, user_id, supplied>>

\* two callers of add() on one MemoryGraph, prompt by prompt
NextIdentity ==
  \/ \E p \in Callers, u \in Identities : AddCall(p, u)
  \/ \E p \in Callers : SearchPrompt(p)
  \/ \E p \in Callers : EntityPrompt(p)
  \/ \E p \in Callers : AddReturn(p)

SpecIdentity == Init /\ [][NextIdentity]_vars

----------------------------------------------------------------------------
(* The operations of embedchain *)

\* merge_metadata_dict(left, right) on the values of two literals
MergeMetadata(left, right) ==
  /\ \E l \in {Alloc(<<>>, left)} : \E r \in {Alloc(l.heap, right)} :
     \E res \in {MergeMetadataDict(r.heap, l.v, r.v)} :
       merge' = [called |-> TRUE, heap |-> r.heap, left |-> l.v, right |-> r.v,
                 after |-> res.heap, ret |-> res.ret, raised |-> res.raised]
  /\ UNCHANGED <<mem0, last, pinecone, app, pipeline, proxy>>

NextMerge == \E left, right \in Metadatas : MergeMetadata(left, right)

SpecMerge == Init /\ [][NextMerge]_vars

\* merge_metadata_dict(merge_metadata_dict(a, b), c): what it raises and
\* what the value it returns is
MergedLeftFirst(heap, a, b, c) ==
  LET ab == MergeMetadataDict(heap, a, b)
      r  == MergeMetadataDict(ab.heap, ab.ret, c)
  IN  IF ab.raised # "none" THEN [raised |-> ab.raised, ret |-> View(heap, NoneValue)]
      ELSE [raised |-> r.raised, ret |-> View(r.heap, r.ret)]

\* merge_metadata_dict(a, merge_metadata_dict(b, c))
MergedRightFirst(heap, a, b, c) ==
  LET bc == MergeMetadataDict(heap, b, c)
      r  == MergeMetadataDict(bc.heap, a, bc.ret)
  IN  IF bc.raised # "none" THEN [raised |-> bc.raised, ret |-> View(heap, NoneValue)]
      ELSE [raised |-> r.raised, ret |-> View(r.heap, r.ret)]

\* three metadatas are merged, grouped one way and, evaluated anew, grouped
\* the other way
MergeThree(a, b, c) ==
  /\ \E x \in {Alloc(<<>>, a)} : \E y \in {Alloc(x.heap, b)} : \E z \in {Alloc(y.heap, c)} :
       merge' = [called |-> TRUE, a |-> a, b |-> b, c |-> c,
                 left_first |-> MergedLeftFirst(z.heap, x.v, y.v, z.v),
                 right_first |-> MergedRightFirst(z.heap, x.v, y.v, z.v)]
  /\ UNCHANGED <<mem0, last, pinecone, app, pipeline, proxy>>

\* the metadatas merged by three: None, empty, with a string, with an empty
\* or a non-empty mapping inside
GroupedMetadatas ==
  { LNone,
    LDict(<<>>),
    LDict(<< <<"a", LStr(StrY)>> >>),
    LDict(<< <<"a", LDict(<<>>)>> >>),
    LDict(<< <<"a", LDict(<< <<"n", LInt(1)>> >>)>> >>),
    LDict(<< <<"a", LDict(<< <<"n", LDict(<< <<"p", LStr(StrX)>> >>)>> >>)>> >>) }

NextGrouped == \E a, b, c \in GroupedMetadatas : MergeThree(a, b, c)

SpecGrouped == Init /\ [][NextGrouped]_vars

\* PineconeDb.add(..., ids, ...), lines 104-118
PineconeAdd(ids) ==
  /\ pinecone' = [index |-> ClientUpsert(pinecone.index, ids), called |-> "add",
                  ids |-> ids, ret |-> [ids |-> {}]]
  /\ UNCHANGED <<mem0, last, merge, app, pipeline, proxy>>

\* PineconeDb.get(ids), lines 67-84
PineconeGet(ids) ==
  /\ pinecone' = [index |-> pinecone.index, called |-> "get", ids |-> ids,
                  ret |-> PineconeGetResult(pinecone.index, ids)]
  /\ UNCHANGED <<mem0, last, merge, app, pipeline, proxy>>

NextPinecone ==
  \/ \E ids \in SUBSET DocIds : PineconeAdd(ids)
  \/ \E ids \in SUBSET DocIds : PineconeGet(ids)

SpecPinecone == Init /\ [][NextPinecone]_vars

\* a data source is added to the pipeline: its row takes is_uploaded from the
\* DEFAULT 0 of the table, lines 97-108
AddSource(hash) ==
  /\ hash \notin DOMAIN pipeline.rows
  /\ pipeline' = [pipeline EXCEPT
       !.rows = [h \in (DOMAIN pipeline.rows) \cup {hash} |->
                   IF h = hash THEN [file |-> IsFile(hash), is_uploaded |-> 0]
                   ELSE pipeline.rows[h]]]
  /\ UNCHANGED <<mem0, last, merge, pinecone, app, proxy>>

\* deploy(), lines 252-267: created tells whether _create_pipeline got 200
\* or 201, out what the requests of each row meet
Deploy(created, out) ==
  /\ IF ~ created
     THEN pipeline' = [pipeline EXCEPT !.called = TRUE] @@ [raised |-> "Exception", out |-> out]
     ELSE \E r \in UploadAll(pipeline.rows, pipeline.received,
                             NotUploaded(pipeline.rows), out) :
            pipeline' = [rows |-> r.rows, received |-> r.received, called |-> TRUE,
                         raised |-> r.raised, out |-> out]
  /\ UNCHANGED <<mem0, last, merge, pinecone, app, proxy>>

NextPipeline ==
  \/ \E hash \in DataHashes : AddSource(hash)
  \/ \E created \in BOOLEAN :
       \E out \in {f \in [DataHashes -> {"ok", "presign_error", "put_failed", "api_failed"}] :
                     \A h \in DataHashes : f[h] \in Outcomes(h)} :
         Deploy(created, out)

SpecPipeline == Init /\ [][NextPipeline]_vars

\* the messages create() is called with
MessageLists ==
  { <<>>,
    <<Message("user", <<"q">>)>>,
    <<Message("system", <<"s">>), Message("user", <<"q">>)>>,
    <<Message("user", <<"h">>), Message("assistant", <<"a">>)>>,
    <<Message("user", <<"h">>), Message("assistant", <<"a">>), Message("user", <<"q">>)>>,
    <<Message("system", <<"s">>), Message("user", <<"h">>), Message("assistant", <<"a">>),
      Message("user", <<"q">>)>>,
    <<Message("system", <<"s">>), Message("assistant", <<"a">>)>>,
    <<Message("user", <<"h">>)>>,
    <<Message("system", MEMORY_ANSWER_PROMPT), Message("user", <<"q">>)>>,
    <<Message("assistant", <<"a">>), Message("user", <<"q">>)>> }

\* what mem0_client.search returns
Memories == {<<>>, <<"m">>}

\* create(model, messages, ...) is called, the thread of an earlier call
\* having run: lines 78-84, up to the start of the background thread.
\* `original` keeps what the messages were at the call
Create(supported, msgs) ==
  /\ proxy.pc = "idle"
  /\ proxy.thread # "started"
  /\ \E messages \in {[i \in DOMAIN msgs |-> i]} :
     \E r \in {PrepareMessages(msgs, messages)} :
       proxy' =
         IF ~ supported
         THEN [pc |-> "idle", thread |-> "none", raised |-> "ValueError", original |-> msgs]
         ELSE [pc |-> IF r.heap[r.ret[Len(r.ret)]].role = "user"
                      THEN "fetch" ELSE "completion",
               thread |-> IF r.heap[r.ret[Len(r.ret)]].role = "user"
                          THEN "started" ELSE "none",
               raised |-> "none", original |-> msgs, heap |-> r.heap,
               messages |-> messages, prepared_messages |-> r.ret]
  /\ UNCHANGED <<mem0, last, merge, pinecone, app, pipeline>>

\* lines 85-86: the memories are fetched and the last prepared message is
\* given the formatted query
FetchAndFormat(relevant_memories) ==
  /\ proxy.pc = "fetch"
  /\ proxy' = [proxy EXCEPT
       !.pc = "completion",
       !.heap[proxy.prepared_messages[Len(proxy.prepared_messages)]].content =
          FormatQueryWithMemories(relevant_memories)]
  /\ UNCHANGED <<mem0, last, merge, pinecone, app, pipeline>>

\* lines 88-120: the completion is made with the prepared messages and
\* returned
Completion ==
  /\ proxy.pc = "completion"
  /\ proxy' = [proxy EXCEPT !.pc = "idle"] @@
                [sent |-> Contents(proxy.heap, proxy.prepared_messages)]
  /\ UNCHANGED <<mem0, last, merge, pinecone, app, pipeline>>

\* add_task, lines 129-137, in the background thread: mem0_client.add is
\* given the list and reads its messages as they are now
AddTask ==
  /\ proxy.thread = "started"
  /\ proxy' = [proxy EXCEPT !.thread = "done"] @@
                [added |-> Contents(proxy.heap, proxy.messages)]
  /\ UNCHANGED <<mem0, last, merge, pinecone, app, pipeline>>

NextProxy ==
  \/ \E supported \in BOOLEAN, msgs \in MessageLists : Create(supported, msgs)
  \/ \E relevant_memories \in Memories : FetchAndFormat(relevant_memories)
  \/ Completion
  \/ AddTask

SpecProxy == Init /\ [][NextProxy]_vars

\* CustomApp(config, app_config, llm, db, embedder, system_prompt)
CustomApp(a) ==
  /\ app' = [called |-> TRUE, args |-> a, result |-> CustomAppInit(a)]
  /\ UNCHANGED <<mem0, last, merge, pinecone, pipeline, proxy>>

Arguments ==
  [config : Configs, app_config : AppConfigs, llm : Llms, db : Dbs,
   embedder : Embedders, system_prompt : SystemPrompts]

NextCustomApp == \E a \in Arguments : CustomApp(a)

SpecCustomApp == Init /\ [][NextCustomApp]_vars

----------------------------------------------------------------------------
(* Claims *)

NextGraph == [nodes |-> nodes', embedding |-> embedding', edges |-> edges']

IsUpdate(l, source, target) ==
  /\ l.op = "_update_relationship"
  /\ l.source = source
  /\ l.target = target
  /\ ~ l.raised

\* the rows get_all reports from a node named a to a node named b
RowsFromTo(G, a, b) == {r \in DOMAIN GetAll(G) : r.source = a /\ r.target = b}

OneEdge(G, a, b, rel) ==
  /\ RowsFromTo(G, a, b) = {[source |-> a, relationship |-> rel, target |-> b]}
  /\ \A r \in RowsFromTo(G, a, b) : GetAll(G)[r] = 1

\* C1: when _update_relationship(A, B, "likes") is followed by
\* _update_relationship(A, B, "dislikes"), get_all then reports exactly one
\* edge from A to B, labelled "dislikes"
C1_SingleCurrentRelationship ==
  [][\A a \in RawNames, b \in RawNames :
       ( /\ IsUpdate(last, a, b) /\ last.relationship = likes
         /\ IsUpdate(last', a, b) /\ last'.relationship = dislikes )
       => OneEdge(NextGraph, a, b, dislikes)]_vars

\* C2: the store holds at most one node for each (name, label), names and
\* labels of labelled nodes are normalized, and a labelled node carries the
\* embedding last handed to the store for its (name, label)
C2_LastWriteWins ==
  /\ \A n1 \in nodes, n2 \in nodes :
       (n1.name = n2.name /\ n1.labels = n2.labels) => n1 = n2
  /\ \A n \in nodes : \A l \in n.labels :
       /\ IsNormalized(n.name) /\ IsNormalized(l)
       /\ n \in DOMAIN embedding
       /\ <<n.name, l>> \in DOMAIN supplied
       /\ embedding[n] = supplied[<<n.name, l>>]

\* a triple was added again: no edge was created, and one node at least had
\* its embedding replaced by a different one
C2_Witness ==
  /\ last.op = "add" /\ last.raised = NoError
  /\ last.tool_calls = <<"add_graph_memory">>
  /\ last.created = 0 /\ last.overwritten >= 1

AllNoop(names) == \A i \in DOMAIN names : names[i] = "noop"

\* C3: an add() whose tool calls are all noop leaves nodes, embeddings and
\* edges as they were
C3_NoopDoesNotMutate ==
  [][(last'.op = "add" /\ AllNoop(last'.tool_calls))
       => (nodes' = nodes /\ embedding' = embedding /\ edges' = edges)]_vars

\* a noop answer was handled while the candidate's edge is in the store
C3_Witness ==
  /\ last.op = "add" /\ last.raised = NoError /\ last.tool_calls = <<"noop">>
  /\ \E e \in BagToSet(edges) :
       /\ e.src.name = new_york /\ e.src.labels = {city}
       /\ e.rel = likes
       /\ e.dst.name = alice /\ e.dst.labels = {person}

\* C4: add() returns the number of edges its add_graph_memory calls created
C4_ReturnsCountInserted ==
  (last.op = "add" /\ last.raised = NoError) => last.ret = <<last.created>>

\* C5: no two edges of the same type join the same ordered pair of nodes
C5_NoDuplicateEdge == \A e \in BagToSet(edges) : edges[e] = 1

\* two edges of different types join one pair, beside a bare node that only
\* _update_relationship creates
C5_Witness ==
  /\ \E e1 \in BagToSet(edges), e2 \in BagToSet(edges) :
       e1.src = e2.src /\ e1.dst = e2.dst /\ e1.rel # e2.rel
  /\ \E e \in BagToSet(edges) : e.src.labels = {} /\ e.src.name = new_york
  /\ \E n \in nodes : n.labels # {} /\ n.name = new_york

\* C6: every node name in the store is normalized
C6_NamesNormalized == \A n \in nodes : IsNormalized(n.name)

\* C8: _update_relationship run alone does not raise; afterwards nodes named
\* source and target exist and every such pair is joined by an edge of the
\* normalized type; a node it created is bare, and its name was not taken
C8_UpdateSucceeds ==
  [][last'.op = "_update_relationship" =>
       LET s == last'.source
           t == last'.target
       IN  /\ ~ last'.raised
           /\ ByName(nodes', s) # {} /\ ByName(nodes', t) # {}
           /\ \A n \in ByName(nodes', s), m \in ByName(nodes', t) :
                BagIn(Edge(n, Normalize(last'.relationship), m), edges')
           /\ \A n \in nodes' \ nodes :
                /\ n.labels = {} /\ n \notin DOMAIN embedding'
                /\ n.name \in {s, t} /\ ByName(nodes, n.name) = {}
           /\ \A n \in nodes : n \in nodes']_vars

\* the update made a bare source node and found the labelled target there
C8_Witness ==
  /\ last.op = "_update_relationship" /\ ~ last.raised
  /\ last.relationship = Dislikes
  /\ \E e \in BagToSet(edges) :
       /\ e.src.labels = {} /\ e.src.name = NewYork
       /\ e.rel = dislikes
       /\ e.dst.labels = {person} /\ e.dst.name = alice

\* n passes the two WHERE clauses for the query embedding q
Passes(n, q) ==
  n \in DOMAIN embedding /\ Similarity(embedding[n], q) >= Threshold

\* C7: for every name queried, a node with an embedding whose similarity to
\* the query embedding, rounded to 0.0001, is at or above the threshold has
\* a row for each of its edges, carrying that similarity; and every row of
\* the answer comes from such a node at one end of its edge, so that a node
\* with no embedding or one unit below the threshold brings none
C7_ThresholdInclusive ==
  last.op = "search" =>
    \A i \in DOMAIN last.answers :
      LET q == last.n_embedding[i]
          A == last.answers[i]
      IN  /\ \A r \in EdgeIds(Graph) : \A n \in {r[1].src, r[1].dst} :
                Passes(n, q) => Row(r, Similarity(embedding[n], q)) \in A
          /\ \A row \in A :
                /\ row.relation_id \in EdgeIds(Graph)
                /\ row.similarity >= Threshold
                /\ \E n \in {row.source_id, row.destination_id} :
                     Passes(n, q) /\ row.similarity = Similarity(embedding[n], q)

\* a query found a node exactly at the threshold and, joined to it, a node
\* one unit below: the rows carry the first one's similarity only
C7_Witness ==
  /\ last.op = "search"
  /\ \E i \in DOMAIN last.answers :
       /\ \E row \in last.answers[i] :
            /\ row.similarity = Threshold
            /\ row.destination_id \in DOMAIN embedding
            /\ Similarity(embedding[row.destination_id], last.n_embedding[i])
                 = Threshold - 1
       /\ \A row \in last.answers[i] : row.similarity = Threshold

Min(a, b) == IF a <= b THEN a ELSE b

C9_RaisesWhenNothingCreated ==
  [][\A p \in Callers :
       /\ ( /\ running[p].pc = "create" /\ running'[p] # running[p]
            /\ CreateRows(Graph, Update(running[p]).source,
                          Update(running[p]).destination) = {} )
          => /\ running'[p].pc = "raise"
             /\ running'[p].raised = "Exception"
             /\ running'[p].message = [source |-> Update(running[p]).source,
                                       target |-> Update(running[p]).destination]
             /\ edges' = edges /\ nodes' = nodes
       /\ (running[p].pc = "raise" /\ running'[p] # running[p])
          => /\ running'[p] = Idle
             /\ last'.op = "add" /\ last'.raised = running[p].raised
             /\ last'.message = running[p].message
             /\ edges' = edges /\ nodes' = nodes]_vars

\* a delete_all ran between the ensure and the create statement: add()
\* ended with the exception and the store is empty
C9_Witness ==
  /\ last.op = "add" /\ last.raised = "Exception"
  /\ last.message = [source |-> new_york, target |-> alice]
  /\ running[1] = Idle
  /\ nodes = {} /\ edges = EmptyBag

\* what the two arguments of the last merge_metadata_dict call were
Left == View(merge.heap, merge.left)

Right == View(merge.heap, merge.right)

NonEmptyMapping(v) == v.t = "dict" /\ DOMAIN v.items # {}

Shared(l, r) == DOMAIN l.items \cap DOMAIN r.items

RECURSIVE Mergeable(_, _)

\* every shared key holds two strings or two mappings that themselves merge
Mergeable(l, r) ==
  \A k \in Shared(l, r) :
    \/ l.items[k].t = "str" /\ r.items[k].t = "str"
    \/ l.items[k].t = "dict" /\ r.items[k].t = "dict"
         /\ Mergeable(l.items[k], r.items[k])

RECURSIVE Merged(_, _)

\* the mapping the merge of two mappings is to be
Merged(l, r) ==
  [t |-> "dict", s |-> <<>>, n |-> 0,
   items |-> [k \in DOMAIN l.items \cup DOMAIN r.items |->
                IF k \notin DOMAIN r.items THEN l.items[k]
                ELSE IF k \notin DOMAIN l.items THEN r.items[k]
                ELSE IF l.items[k].t = "str"
                THEN [l.items[k] EXCEPT !.s = l.items[k].s \o r.items[k].s]
                ELSE Merged(l.items[k], r.items[k])]]

\* C14: for two non-empty mappings merge_metadata_dict succeeds exactly when
\* every shared key holds two strings or two mappings that themselves merge,
\* and its result is then the mapping over the union of the keys in which a
\* key of one side keeps its value, a shared string key holds left's string
\* followed by right's and a shared mapping key holds the merge, a mapping,
\* of the two values.
C14_MergeResult ==
  (merge.called /\ NonEmptyMapping(Left) /\ NonEmptyMapping(Right)) =>
     /\ (merge.raised = "none") <=> Mergeable(Left, Right)
     /\ (merge.raised = "none") => View(merge.after, merge.ret) = Merged(Left, Right)

RECURSIVE Conflict(_, _)

\* some shared key, at any depth, holds values of different types or two
\* values of one type that is neither str nor dict
Conflict(l, r) ==
  \E k \in Shared(l, r) :
    \/ l.items[k].t # r.items[k].t
    \/ l.items[k].t = r.items[k].t /\ l.items[k].t \notin {"str", "dict"}
    \/ l.items[k].t = "dict" /\ r.items[k].t = "dict"
         /\ Conflict(l.items[k], r.items[k])

\* C15: merge_metadata_dict raises ValueError when a shared key, at any
\* nesting depth, holds values of different types or two same-typed values
\* that are neither strings nor mappings; and whether it returns or raises,
\* every dict that existed before the call, the two arguments and the dicts
\* nested in them, has the items it had.
C15_ValueErrorAndInputsKept ==
  merge.called =>
     /\ (merge.left.t = "dict" /\ merge.right.t = "dict" /\ Conflict(Left, Right))
           => merge.raised = "ValueError"
     /\ \A ref \in DOMAIN merge.heap : merge.after[ref] = merge.heap[ref]
     /\ View(merge.after, merge.left) = Left
     /\ View(merge.after, merge.right) = Right

\* a conflict two levels down is raised after the copies of the dicts above it
\* were made and written to
C15_Witness ==
  /\ merge.called
  /\ merge.raised = "ValueError"
  /\ merge.left.t = "dict" /\ merge.right.t = "dict"
  /\ ~(\E k \in Shared(Left, Right) : Left.items[k].t # "dict" \/ Right.items[k].t # "dict")
  /\ Conflict(Left, Right)
  /\ Len(merge.after) > Len(merge.heap) + 1
  /\ \E ref \in DOMAIN merge.after \ DOMAIN merge.heap : merge.after[ref] # <<>>

\* C16: PineconeDb.get(ids) returns under "ids" exactly the requested ids
\* for which the query of the index has a match, so every requested id that
\* is in the index.
C16_GetReturnsPresentIds ==
  pinecone.called = "get" =>
     pinecone.ret.ids = {id \in pinecone.ids : ClientQuery(pinecone.index, id) # <<>>}

ValidArguments(a) ==
  /\ a.config = NoneType
  /\ a.app_config \in {NoneType, "CustomAppConfig"}
  /\ a.llm = "BaseLlm"
  /\ a.db = "BaseVectorDB"
  /\ a.embedder = "BaseEmbedder"

\* C17: CustomApp with config None, an app_config that is a CustomAppConfig
\* or None, and llm, db and embedder of their base classes raises nothing
\* and calls the parent initializer; a ValueError is raised only for a
\* missing llm, db or embedder or for a yaml config given with class-based
\* arguments, a TypeError only for an argument of the wrong class.
C17_ValidArgumentsConstruct ==
  app.called =>
     /\ ValidArguments(app.args) => (app.result.raised = "none" /\ app.result.parent)
     /\ app.result.raised = "ValueError" =>
           \/ NoneType \in {app.args.llm, app.args.db, app.args.embedder}
           \/ app.args.config = "str"
     /\ app.result.raised = "TypeError" => ~ValidArguments(app.args)

\* C12: an empty tool_calls list is no error.  In add(): when the search
\* extraction answers none, _search returns no row; when the entity
\* extraction answers none, the candidate list is empty; when the
\* reconciliation answers none, add() raises nothing and leaves the store as
\* it was.  (The two later answers are asked for only with user_id set.)
C12_EmptyToolCallsTolerated ==
  [][ last'.op = "add" =>
        /\ last'.search_calls = <<>> => last'.rows = {}
        /\ (user_id # None /\ last'.entity_calls = <<>>) =>
              (last'.extracted = <<>> /\ last'.raised # "IndexError")
        /\ (user_id # None /\ last'.tool_calls = <<>>) =>
              (last'.raised = NoError /\ NextGraph = Graph) ]_vars

\* add() has returned with every answer of the model empty, on a store that
\* holds edges
C12_Witness ==
  /\ last.op = "add"
  /\ last.search_calls = <<>> /\ last.entity_calls = <<>> /\ last.tool_calls = <<>>
  /\ last.rows = {} /\ last.extracted = <<>> /\ last.raised = NoError
  /\ user_id # None
  /\ edges # EmptyBag

\* C13: when add() raises, the store is in the state it had before the call.
C13_FailsAtomically ==
  [][ (last'.op = "add" /\ last'.raised # NoError) => NextGraph = Graph ]_vars

CopiesOf(e, B) == IF BagIn(e, B) THEN B[e] ELSE 0

FromTo(e, source, target) == e.src.name = source /\ e.dst.name = target

\* C19: _update_relationship(S, D, r) leaves from S to D only the edge it
\* creates, one of type r for each pair of nodes so named, and leaves every
\* other edge (those from D to S, those of any other pair) with the copies it
\* had and every node that existed with its labels and its embedding.
C19_UpdateFrame ==
  [][ last'.op = "_update_relationship" =>
        /\ \A e \in BagToSet(edges) \cup BagToSet(edges') :
              ~ FromTo(e, last'.source, last'.target) =>
                 CopiesOf(e, edges') = CopiesOf(e, edges)
        /\ \A e \in BagToSet(edges') :
              FromTo(e, last'.source, last'.target) =>
                 (e.rel = Normalize(last'.relationship) /\ edges'[e] = 1)
        /\ nodes \subseteq nodes'
        /\ (DOMAIN embedding') \cap nodes = DOMAIN embedding
        /\ \A n \in DOMAIN embedding : embedding'[n] = embedding[n] ]_vars

\* _update_relationship has run on a store that holds an edge from D to S,
\* an edge of another pair and nodes with embeddings
C19_Witness ==
  /\ last.op = "_update_relationship"
  /\ ~ last.raised
  /\ \E e \in BagToSet(edges) : FromTo(e, last.source, last.target)
  /\ \E e \in BagToSet(edges) : FromTo(e, last.target, last.source)
  /\ \E e \in BagToSet(edges) : e.src.name \notin {last.source, last.target}
  /\ \E n \in DOMAIN embedding : n.name = last.source
  /\ \E n \in nodes : n.name = last.source /\ n \notin DOMAIN embedding

\* the replacements of a batch, in tool-call order
RECURSIVE Replaced(_, _)
Replaced(G, calls) ==
  IF calls = <<>> THEN G
  ELSE LET a == Head(calls).arguments
       IN  IF Head(calls).name = "update_graph_memory"
           THEN Replaced(UpdateResult(G, a.source, a.destination, a.relationship).graph,
                         Tail(calls))
           ELSE Replaced(G, Tail(calls))

\* the insertions of a batch, in tool-call order
RECURSIVE Inserted(_, _, _)
Inserted(G, calls, embed) ==
  IF calls = <<>> THEN G
  ELSE IF Head(calls).name = "add_graph_memory"
       THEN Inserted(AddQuery(G, AddParams(Head(calls).arguments, embed)).graph,
                     Tail(calls), embed)
       ELSE Inserted(G, Tail(calls), embed)

HasEdge(E, source, rel, target) ==
  \E e \in BagToSet(E) : FromTo(e, source, target) /\ e.rel = rel

C18_OneEdgeAfterConcurrentUpdates ==
  (\A p \in Callers : running[p].pc = "return") =>
     Copies(edges, {e \in BagToSet(edges) : FromTo(e, new_york, alice)}) = 1

AliceLivesInParis == [source |-> alice, relation |-> lives_in, destination |-> paris]

BobLivesInParis == [source |-> bob, relation |-> lives_in, destination |-> paris]

Candidates(answers) == {SearchResult(Doc(r)) : r \in Rows(answers)}

Positions(results, item) == {i \in DOMAIN results : results[i] = item}

\* the score of a result among the candidates of the last search
ScoreOf(item) ==
  Score(SearchOutputsSequence(last.answers),
        <<item.source, item.relation, item.destination>>, Split(last.query))

\* C11: on a graph with (alice, lives_in, paris) and (bob, lives_in, paris),
\* search("Where does Alice live?") with user_id alice returns alice's triple
\* at a rank at or above bob's whenever both are candidate rows, the results
\* being in the order of their BM25 scores.
C11_AliceRankedAtOrAboveBob ==
  (/\ last.op = "search"
   /\ last.query = WhereDoesAliceLive
   /\ user_id = alice
   /\ {AliceLivesInParis, BobLivesInParis} \subseteq Candidates(last.answers)) =>
     /\ \A i, j \in DOMAIN last.results :
           i < j => ScoreOf(last.results[i]) >= ScoreOf(last.results[j])
     /\ \E i \in Positions(last.results, AliceLivesInParis) :
           \A j \in Positions(last.results, BobLivesInParis) : i < j

\* the calls of the batch that the first loop has handled
Handled(c) == Len(c.batch) - Len(c.tool_calls)

\* the insertions of the batch that the second loop has made
InsertedCount(c) == IF c.tool_calls = <<>> THEN c.queued - Len(c.to_be_added) ELSE 0

\* the i-th call of the batch is a replacement that was applied and that no
\* applied replacement of the same pair came after
StandingUpdate(c, i) ==
  /\ i <= Handled(c)
  /\ c.batch[i].name = "update_graph_memory"
  /\ \A j \in (i + 1)..Handled(c) :
       ~ (/\ c.batch[j].name = "update_graph_memory"
          /\ c.batch[j].arguments.source = c.batch[i].arguments.source
          /\ c.batch[j].arguments.destination = c.batch[i].arguments.destination)

\* the i-th call of the batch is an insertion that was made
MadeInsertion(c, i) ==
  /\ c.batch[i].name = "add_graph_memory"
  /\ Cardinality({j \in 1..i : c.batch[j].name = "add_graph_memory"}) <= InsertedCount(c)

\* C21: when the handling of a triple fails inside add(), also by a failure
\* of the store between the delete and the create statement of a
\* replacement, the edge of every triple of the batch applied before it is
\* in the store.
C21_AppliedTriplesKept ==
  \A p \in OneCaller :
    (running[p].pc = "raise" /\ running[p].raised # "TypeError") =>
       \A i \in DOMAIN running[p].batch :
          LET a == running[p].batch[i].arguments
          IN  /\ StandingUpdate(running[p], i) =>
                    HasEdge(edges, a.source, Normalize(a.relationship), a.destination)
              /\ MadeInsertion(running[p], i) =>
                    HasEdge(edges, Normalize(a.source), Normalize(a.relationship),
                            Normalize(a.destination))

\* the names the loop of lines 77-83 tests for
KnownNames == {"add_graph_memory", "update_graph_memory", "noop"}

\* C22: a reconciliation tool call whose name is none of add_graph_memory,
\* update_graph_memory and noop makes add() fail: no add() returns from a
\* batch that holds one.
C22_UnknownNameRejected ==
  \A p \in OneCaller :
    running[p].pc = "return" =>
       \A i \in DOMAIN running[p].batch : running[p].batch[i].name \in KnownNames


\* the nodes that a query of embedding q matches: an embedding is stored and
\* its similarity is at or above the threshold
Seeds(q) ==
  {n \in nodes : n \in DOMAIN embedding /\ Similarity(embedding[n], q) >= Threshold}

\* the row of edge r when node n seeded it
SeededRow(n, r, q) ==
  [source |-> r[1].src.name, source_id |-> r[1].src,
   relation |-> r[1].rel, relation_id |-> r,
   destination |-> r[1].dst.name, destination_id |-> r[1].dst,
   similarity |-> Similarity(embedding[n], q)]

Outgoing(n) == {r \in EdgeIds(Graph) : r[1].src = n}

Incoming(n) == {r \in EdgeIds(Graph) : r[1].dst = n}

\* the rows for a query of embedding q: one for each edge that leaves or
\* enters a matched node
SeededRows(q) ==
  UNION {{SeededRow(n, r, q) : r \in Outgoing(n) \cup Incoming(n)} : n \in Seeds(q)}

\* C23: when search() has run, for every name queried the rows are exactly
\* one row for each edge that leaves a node with an embedding at or above
\* the threshold and one for each edge that enters such a node, with the
\* edge's stored source, label and destination and that node's similarity;
\* nothing else is a row
C23_RowsBothDirections ==
  [][(last' # last /\ last'.op = "search") =>
       \A i \in DOMAIN last'.answers :
         last'.answers[i] = SeededRows(last'.n_embedding[i])]_vars

\* a search found one row through an edge leaving a matched node and one
\* through an edge entering a matched node from a node without embedding,
\* while another matched node had no edge
C23_Witness ==
  /\ last.op = "search"
  /\ \E i \in DOMAIN last.answers :
       /\ \E row \in last.answers[i] :
            /\ row.source_id \in Seeds(last.n_embedding[i])
            /\ row.destination_id \notin DOMAIN embedding
       /\ \E row \in last.answers[i] :
            /\ row.destination_id \in Seeds(last.n_embedding[i])
            /\ row.source_id \notin DOMAIN embedding
       /\ \E n \in Seeds(last.n_embedding[i]) : Outgoing(n) \cup Incoming(n) = {}
       /\ last.answers[i] = SeededRows(last.n_embedding[i])


\* C24: the list of names that _search embeds and queries holds no name
\* twice
C24_NamesQueriedOnce ==
  last.op = "search" =>
    \A i, j \in DOMAIN last.node_list :
      i # j => last.node_list[i] # last.node_list[j]


\* the nodes with no label and no embedding
Bare == {n \in nodes : n.labels = {} /\ n \notin DOMAIN embedding}

\* the node of that name and that one label, carrying an embedding
Typed(name, type) ==
  {n \in nodes : n.name = name /\ n.labels = {type} /\ n \in DOMAIN embedding}

\* C26: whatever add() or _update_relationship does, a node with no label
\* and no embedding stays in the store as it is; and every name inserted
\* under a type since the store was last emptied has a node of that type
\* with an embedding, beside the bare node of that name if there is one
C26_BareNodeNeverUpgraded ==
  [][last'.op # "delete_all" =>
       /\ Bare \subseteq Bare'
       /\ \A key \in DOMAIN supplied' :
            /\ Typed(key[1], key[2])' # {}
            /\ \A n \in Bare : n.name = key[1] => n \notin Typed(key[1], key[2])']_vars

\* an add() inserted new_york as a city while a bare node of that name was
\* in the store: both nodes are there
C26_Witness ==
  /\ last.op = "add"
  /\ last.created > 0
  /\ <<new_york, city>> \in DOMAIN supplied
  /\ \E n \in Bare : n.name = new_york
  /\ Typed(new_york, city) # {}


\* C25: when an add() has formatted its two prompts, the identity in the
\* search prompt and the one in the entity-extraction prompt are both the
\* identity of the caller that started the call
C25_OneIdentityPerCall ==
  \A p \in Callers :
    running[p].pc = "prompted" =>
      /\ running[p].search_user = running[p].caller
      /\ running[p].entity_user = running[p].caller


\* C29: merging three metadatas gives the same outcome however the two
\* merges are grouped: both groupings raise, or both return equal values
C29_MergeAssociative ==
  (merge.called /\ "left_first" \in DOMAIN merge) =>
     /\ (merge.left_first.raised = "none") <=> (merge.right_first.raised = "none")
     /\ merge.left_first.raised = "none" => merge.left_first.ret = merge.right_first.ret


\* C28: a row has is_uploaded = 1 only if the platform received its data
C28_UploadedOnlyIfReceived ==
  \A h \in DOMAIN pipeline.rows :
    pipeline.rows[h].is_uploaded = 1 => h \in pipeline.received


\* C27: when the background thread of create() has handed the messages to
\* mem0_client.add, they are what the caller's messages were when create()
\* was called
C27_ThreadAddsOriginalMessages ==
  proxy.thread = "done" => proxy.added = proxy.original

====
